---- MODULE Spec2Model ----
(***************************************************************************)
(* Document intelligence pipeline of RAG-CHATBOT: text normalisation,      *)
(* segmentation, chunking, the retrieval index and the NLP orchestrator.   *)
(* Text is a sequence of one-character strings; Python's 0-based slices    *)
(* are kept through Slice.                                                  *)
(***************************************************************************)
EXTENDS Integers, Sequences, FiniteSets, TLC

VARIABLES
  text,        \* the input text of a normaliser / segmenter call
  doc_type,    \* the doc_type argument of IngestionPipeline.segment_document
  clean_pc,    \* which normaliser has been applied, and how often
  clean_out,   \* clean_text(text)
  clean_out2,  \* clean_text(clean_text(text))
  layout,      \* the headed document text was rendered from (<<>>: free text)
  seg_pc,      \* which segmenter has returned
  segments     \* the list segment_document returned / process_document_segments is given

VARIABLES
  chunker,     \* which chunker is called: "SimpleRAG" or "main" (simple_rag_query)
  document_content,     \* the units (characters or words) of the text to chunk
  chunk_size,  \* the chunk_size argument
  overlap,     \* the overlap argument
  chunk_pc,    \* "idle", "returned" or "raised"
  chunks       \* the list of chunks returned

VARIABLES
  vectorstore,      \* DocumentRetriever.vectorstore: None or the indexed texts
  index_file,       \* the index saved at index_path: None or the saved texts
  last_create_arg,  \* history: the list given to the latest create_index call,
                    \* and whether add_documents was ever called
  retr_calls,       \* number of create_index / add_documents calls made
  ret_pc,           \* "idle", or "returned" / "raised" after retrieve_context
  retrieved         \* the list retrieve_context returned

VARIABLES
  now,             \* the wall clock, in seconds
  document_text,   \* the document_text argument of process_document
  document_id,     \* the document_id argument; the empty string is None
  queries_arg,     \* the queries argument: None or a list
  queries,         \* the list the query loop runs over
  nlp_pc,          \* where the run of process_document stands
  qi,              \* position of the query loop in queries
  start_time,      \* start_time of the run
  insights,        \* the insights dictionary being filled
  llm_calls,       \* history: every chain.run call of the run and its outcome
  predictions_dir, \* prediction log: file name |-> the record written
  nlp_returned     \* what process_document returned

VARIABLES
  document_list,   \* the document_list argument of IngestionPipeline.run
  doc_i,           \* position of run's loop in document_list
  ing_pc,          \* where run / process_document stands
  files,           \* the files that exist: temporary downloads and the caller's
  ing_file_path,   \* file_path returned by acquire_document, <<>> for None
  ing_doc_format,  \* doc_format returned by acquire_document
  ing_raw_text,    \* raw_text returned by parse_document
  ing_segments,    \* segments_data
  db_documents,    \* rows of the documents table, the id being the position
  db_segments,     \* rows of the segments table
  stage_log,       \* history: the stages of the current document and their outcome
  ing_result,      \* what process_document returned for the current document
  results          \* the list run collects

VARIABLES
  corrections_dir, \* correction log: file name |-> the record written
  feedback_dir,    \* feedback log: file name |-> the record written
  log_history,     \* history: the successful log_* calls, in order
  got_prediction,  \* what get_prediction returned
  acc_gold,        \* the gold_standard argument of calculate_accuracy_metrics
  acc_predictions, \* its predictions argument
  acc_metrics,     \* the dictionary it returned
  drift_current,   \* the current_data_distribution argument of detect_drift
  drift_baseline,  \* its baseline_distribution argument
  drift_result,    \* the dictionary it returned
  mon_pc           \* which monitoring call has returned

VARIABLES
  api_pc,          \* where the API's background task stands
  api_run,         \* the analysis run in progress: document id, text, insights
  db_insights,     \* rows of the insights table
  upload_log,      \* history: the finished upload tasks and the id they stored
  analysis_log,    \* history: the completed analysis runs
  got_insights     \* what get_insights_by_document returned, and the table it read

VARIABLES
  current_document_id, \* HumanReviewDashboard.current_document_id, <<>> for None
  current_prediction,  \* HumanReviewDashboard.current_prediction, <<>> for None and {}
  corrections_cache,   \* HumanReviewDashboard.corrections_cache
  accepted,            \* history: the cache the accepted corrections alone make
  dash_returned,       \* what the latest dashboard call returned
  dash_pc              \* which dashboard call returned last

textVars ==
  <<text, doc_type, layout, clean_pc, clean_out, clean_out2, seg_pc, segments>>
chunkVars == <<chunker, document_content, chunk_size, overlap, chunk_pc, chunks>>
retrVars == <<vectorstore, index_file, last_create_arg, retr_calls, ret_pc, retrieved>>

nlpVars ==
  <<now, document_text, document_id, queries_arg, queries, nlp_pc, qi, start_time,
    insights, llm_calls, predictions_dir, nlp_returned>>

ingVars ==
  <<document_list, doc_i, ing_pc, files, ing_file_path, ing_doc_format, ing_raw_text,
    ing_segments, db_documents, db_segments, stage_log, ing_result, results>>

monVars ==
  <<corrections_dir, feedback_dir, log_history, got_prediction, acc_gold, acc_predictions,
    acc_metrics, drift_current, drift_baseline, drift_result, mon_pc>>

apiVars == <<api_pc, api_run, db_insights, upload_log, analysis_log, got_insights>>

dashVars ==
  <<current_document_id, current_prediction, corrections_cache, accepted, dash_returned,
    dash_pc>>

vars == <<textVars, chunkVars, retrVars, nlpVars, ingVars, monVars, apiVars, dashVars>>

\* what the actions of one group leave alone
NotText == <<chunkVars, retrVars, nlpVars, ingVars, monVars, apiVars, dashVars>>
NotChunk == <<textVars, retrVars, nlpVars, ingVars, monVars, apiVars, dashVars>>
NotRetr == <<textVars, chunkVars, nlpVars, ingVars, monVars, apiVars, dashVars>>
NotNlp == <<textVars, chunkVars, ingVars, monVars, apiVars, dashVars>>
NotIng == <<textVars, chunkVars, retrVars, nlpVars, monVars, apiVars, dashVars>>
NotMon == <<textVars, chunkVars, retrVars, ingVars, apiVars, dashVars>>

(***************************************************************************)
(* Bounds                                                                  *)
(***************************************************************************)
MaxPieces == 4      \* an input text is at most this many pieces long
MaxSections == 2    \* a headed document has at most this many sections
MaxContent == 8     \* SimpleRAG.document_content has at most this many characters
MaxChunkSize == 4   \* chunk_size ranges over 1..MaxChunkSize, overlap one further
MaxWords == 1910    \* the document of simple_rag_query has at most this many words
MaxDocs == 2        \* a list given to create_index / add_documents has at most this many texts
MaxCalls == 3       \* at most this many create_index / add_documents calls on a retriever
MaxK == 2           \* retrieve_context is asked for 1..MaxK texts
MaxQueries == 2     \* a queries list given to process_document has at most this many queries
MaxTime == 1        \* the clock runs from 0 to MaxTime seconds
MaxLogCalls == 2    \* at most this many successful log_* calls on a logger
MaxSamples == 2     \* a list given to calculate_accuracy_metrics has at most this many values
MaxList == 1        \* the document_list given to run has at most this many entries

(***************************************************************************)
(* Characters and Python string primitives                                 *)
(***************************************************************************)
Whitespace == {" ", "\t", "\n"}
Newline == {"\n"}

Min(a, b) == IF a < b THEN a ELSE b
Max(a, b) == IF a > b THEN a ELSE b

\* s[a:b] of Python for 0 <= a, 0 <= b
Slice(s, a, b) == SubSeq(s, Min(a, Len(s)) + 1, Min(b, Len(s)))

RECURSIVE LStripFrom(_, _)
LStripFrom(s, i) ==
  IF i > Len(s) THEN <<>>
  ELSE IF s[i] \in Whitespace THEN LStripFrom(s, i + 1)
  ELSE SubSeq(s, i, Len(s))

RECURSIVE RStripTo(_, _)
RStripTo(s, j) ==
  IF j < 1 THEN <<>>
  ELSE IF s[j] \in Whitespace THEN RStripTo(s, j - 1)
  ELSE SubSeq(s, 1, j)

\* str.strip()
Strip(s) == LStripFrom(RStripTo(s, Len(s)), 1)

\* str.split(): the maximal runs of non-whitespace characters, in order
RECURSIVE SplitFrom(_, _, _)
SplitFrom(s, i, word) ==
  IF i > Len(s) THEN (IF word = <<>> THEN <<>> ELSE <<word>>)
  ELSE IF s[i] \in Whitespace
       THEN (IF word = <<>> THEN <<>> ELSE <<word>>) \o SplitFrom(s, i + 1, <<>>)
       ELSE SplitFrom(s, i + 1, Append(word, s[i]))

Split(s) == SplitFrom(s, 1, <<>>)

\* str.split("\n"): always at least one (possibly empty) line
RECURSIVE SplitLinesFrom(_, _, _)
SplitLinesFrom(s, i, line) ==
  IF i > Len(s) THEN <<line>>
  ELSE IF s[i] = "\n" THEN <<line>> \o SplitLinesFrom(s, i + 1, <<>>)
  ELSE SplitLinesFrom(s, i + 1, Append(line, s[i]))

SplitLines(s) == SplitLinesFrom(s, 1, <<>>)

\* sep.join(parts)
RECURSIVE Join(_, _)
Join(parts, sep) ==
  IF parts = <<>> THEN <<>>
  ELSE IF Len(parts) = 1 THEN parts[1]
  ELSE parts[1] \o sep \o Join(Tail(parts), sep)

\* re.sub(cls+, rep, s): every maximal run of characters of cls becomes rep
RECURSIVE ReSubRunsFrom(_, _, _, _)
ReSubRunsFrom(s, i, cls, rep) ==
  IF i > Len(s) THEN <<>>
  ELSE IF s[i] \in cls
       THEN (IF i > 1 /\ s[i - 1] \in cls THEN <<>> ELSE <<rep>>)
            \o ReSubRunsFrom(s, i + 1, cls, rep)
       ELSE <<s[i]>> \o ReSubRunsFrom(s, i + 1, cls, rep)

ReSubRuns(s, cls, rep) == ReSubRunsFrom(s, 1, cls, rep)

\* re.sub(cls cls, rep, s): every non-overlapping PAIR of characters of cls
\* becomes rep (what the substitution does when the + is lost)
RECURSIVE ReSubPairsFrom(_, _, _, _)
ReSubPairsFrom(s, i, cls, rep) ==
  IF i > Len(s) THEN <<>>
  ELSE IF i < Len(s) /\ s[i] \in cls /\ s[i + 1] \in cls
       THEN <<rep>> \o ReSubPairsFrom(s, i + 2, cls, rep)
       ELSE <<s[i]>> \o ReSubPairsFrom(s, i + 1, cls, rep)

StartsWith(s, prefix) ==
  Len(s) >= Len(prefix) /\ SubSeq(s, 1, Len(prefix)) = prefix

(***************************************************************************)
(* The two normalisers                                                     *)
(***************************************************************************)
\* processor.py: ' '.join(word for word in text.split() if word)
DocumentProcessor_clean_text(t) ==
  IF t = <<>> THEN <<>>
  ELSE Join(SelectSeq(Split(t), LAMBDA w : w # <<>>), <<" ">>)

IngestionPipeline_clean_text_pairs(t) ==
  IF t = <<>> THEN <<>>
  ELSE ReSubPairsFrom(ReSubRuns(Strip(t), Newline, "\n"), 1, Whitespace, " ")

\* ingest.py: strip(), then \n+ -> \n, then \s+ -> ' '
IngestionPipeline_clean_text(t) ==
  IF t = <<>> THEN <<>>
  ELSE ReSubRuns(ReSubRuns(Strip(t), Newline, "\n"), Whitespace, " ")

(***************************************************************************)
(* DocumentProcessor.segment_document (processor.py)                       *)
(***************************************************************************)
Str_Section == <<"S", "e", "c", "t", "i", "o", "n">>
Str_SECTION == <<"S", "E", "C", "T", "I", "O", "N">>
Str_default == <<"d", "e", "f", "a", "u", "l", "t">>

\* line.startswith(("#", "Section", "SECTION"))
IsMarkerLine(line) ==
  \/ StartsWith(line, <<"#">>)
  \/ StartsWith(line, Str_Section)
  \/ StartsWith(line, Str_SECTION)

\* s.lstrip(chars)
RECURSIVE LStripChars(_, _)
LStripChars(s, chars) ==
  IF s # <<>> /\ s[1] \in chars THEN LStripChars(Tail(s), chars) ELSE s

\* the dict appended to segments
Segment(section, txt, page) ==
  [section_type |-> section, text |-> txt, start_page |-> page, end_page |-> page]

\* the loop over lines, with its three loop variables, and the final append
RECURSIVE DPSegmentLoop(_, _, _, _, _)
DPSegmentLoop(lines, i, segs, current_section, current_text) ==
  IF i > Len(lines)
  THEN IF current_text # <<>>
       THEN Append(segs, Segment(current_section,
                                 Join(SelectSeq(current_text, LAMBDA l : l # <<>>), <<"\n">>), 1))
       ELSE segs
  ELSE LET line == Strip(lines[i])
       IN IF IsMarkerLine(line)
          THEN DPSegmentLoop(lines, i + 1,
                 IF current_text # <<>>
                 THEN Append(segs, Segment(current_section,
                                 Join(SelectSeq(current_text, LAMBDA l : l # <<>>), <<"\n">>), 1))
                 ELSE segs,
                 Strip(LStripChars(line, {"#"})), <<>>)
          ELSE IF line # <<>>
          THEN DPSegmentLoop(lines, i + 1, segs, current_section, Append(current_text, line))
          ELSE DPSegmentLoop(lines, i + 1, segs, current_section, current_text)

\* the same loop with the append at a marker line forgotten: the lines
\* collected before a marker are dropped
RECURSIVE DPSegmentLoopDropping(_, _, _, _, _)
DPSegmentLoopDropping(lines, i, segs, current_section, current_text) ==
  IF i > Len(lines)
  THEN IF current_text # <<>>
       THEN Append(segs, Segment(current_section, Join(current_text, <<"\n">>), 1))
       ELSE segs
  ELSE LET line == Strip(lines[i])
       IN IF IsMarkerLine(line)
          THEN DPSegmentLoopDropping(lines, i + 1, segs,
                                     Strip(LStripChars(line, {"#"})), <<>>)
          ELSE IF line # <<>>
          THEN DPSegmentLoopDropping(lines, i + 1, segs, current_section,
                                     Append(current_text, line))
          ELSE DPSegmentLoopDropping(lines, i + 1, segs, current_section, current_text)

DocumentProcessor_segment_document_dropping(content) ==
  IF content = <<>> THEN <<>>
  ELSE DPSegmentLoopDropping(SplitLines(content), 1, <<>>, Str_default, <<>>)

DocumentProcessor_segment_document(content) ==
  IF content = <<>> THEN <<>>
  ELSE DPSegmentLoop(SplitLines(content), 1, <<>>, Str_default, <<>>)

(***************************************************************************)
(* IngestionPipeline.segment_document (ingest.py)                          *)
(***************************************************************************)
LowerCase == <<"a", "b", "c", "d", "e", "f", "g", "h", "i", "j", "k", "l", "m",
               "n", "o", "p", "q", "r", "s", "t", "u", "v", "w", "x", "y", "z">>
UpperCase == <<"A", "B", "C", "D", "E", "F", "G", "H", "I", "J", "K", "L", "M",
               "N", "O", "P", "Q", "R", "S", "T", "U", "V", "W", "X", "Y", "Z">>
Letters == {LowerCase[i] : i \in 1..26} \cup {UpperCase[i] : i \in 1..26}
Digits == {"0", "1", "2", "3", "4", "5", "6", "7", "8", "9"}

ToUpper(c) ==
  IF \E i \in 1..26 : LowerCase[i] = c
  THEN UpperCase[CHOOSE i \in 1..26 : LowerCase[i] = c]
  ELSE c

\* the first offset >= j (0-based) whose character is not in cls
RECURSIVE SkipWhile(_, _, _)
SkipWhile(s, j, cls) ==
  IF j < Len(s) /\ s[j + 1] \in cls THEN SkipWhile(s, j + 1, cls) ELSE j

\* the first offset >= j (0-based) holding a newline, or Len(s): where .* stops
RECURSIVE EndOfLine(_, _)
EndOfLine(s, j) ==
  IF j < Len(s) /\ s[j + 1] # "\n" THEN EndOfLine(s, j + 1) ELSE j

\* the pattern compiled without re.IGNORECASE
SectionMatchEndCaseSensitive(s, p) ==
  IF ~(p + 4 <= Len(s)
       /\ s[p + 1] = "I" /\ s[p + 2] = "T" /\ s[p + 3] = "E" /\ s[p + 4] = "M")
  THEN -1
  ELSE LET a == SkipWhile(s, p + 4, Whitespace)
           b == SkipWhile(s, a, Digits)
           c == IF b < Len(s) /\ s[b + 1] \in {UpperCase[i] : i \in 1..26}
                THEN b + 1 ELSE b
           d == c + 1
           e == SkipWhile(s, d, Whitespace)
       IN IF a > p + 4 /\ b > a /\ c < Len(s) /\ s[c + 1] = "." /\ e > d
          THEN EndOfLine(s, e)
          ELSE -1

\* re.compile(r"ITEM\s+\d+[A-Z]?\.\s+.*", re.IGNORECASE) matched at offset p:
\* the end offset of the match, or -1. Every quantifier is greedy and the
\* classes that follow one another are disjoint, so no backtracking changes
\* the outcome.
SectionMatchEnd(s, p) ==
  IF ~(p + 4 <= Len(s)
       /\ ToUpper(s[p + 1]) = "I" /\ ToUpper(s[p + 2]) = "T"
       /\ ToUpper(s[p + 3]) = "E" /\ ToUpper(s[p + 4]) = "M")
  THEN -1
  ELSE LET a == SkipWhile(s, p + 4, Whitespace)
           b == SkipWhile(s, a, Digits)
           c == IF b < Len(s) /\ s[b + 1] \in Letters THEN b + 1 ELSE b
           d == c + 1
           e == SkipWhile(s, d, Whitespace)
       IN IF a > p + 4 /\ b > a /\ c < Len(s) /\ s[c + 1] = "." /\ e > d
          THEN EndOfLine(s, e)
          ELSE -1

\* list(section_pattern.finditer(raw_text)): the spans <<start, end>> of the
\* leftmost non-overlapping matches, searching on from the end of each match
RECURSIVE FindIter(_, _)
FindIter(s, pos) ==
  IF pos >= Len(s) THEN <<>>
  ELSE LET e == SectionMatchEnd(s, pos)
       IN IF e >= 0 THEN <<(<<pos, e>>)>> \o FindIter(s, e)
          ELSE FindIter(s, pos + 1)

Str_unknown == <<"u", "n", "k", "n", "o", "w", "n">>
Str_part_1_business ==
  <<"p", "a", "r", "t", "_", "1", "_", "b", "u", "s", "i", "n", "e", "s", "s">>
Str_part_2_financials ==
  <<"p", "a", "r", "t", "_", "2", "_", "f", "i", "n", "a", "n", "c", "i", "a", "l", "s">>
Str_part_3_legal == <<"p", "a", "r", "t", "_", "3", "_", "l", "e", "g", "a", "l">>
Str_full_document ==
  <<"f", "u", "l", "l", "_", "d", "o", "c", "u", "m", "e", "n", "t">>

FilingTypes == {"10-K", "10-Q"}

\* the loop over matches: loop variables segments and last_end
RECURSIVE IPMatchLoop(_, _, _, _, _)
IPMatchLoop(raw_text, matches, i, segs, last_end) ==
  IF i > Len(matches)
  THEN IF last_end < Len(raw_text)
       THEN Append(segs, Segment(Str_unknown, Strip(Slice(raw_text, last_end, Len(raw_text))), 0))
       ELSE segs
  ELSE LET start == matches[i][1]
           end == matches[i][2]
           before == IF start > last_end
                     THEN Append(segs, Segment(Str_unknown,
                                               Strip(Slice(raw_text, last_end, start)), 0))
                     ELSE segs
           next_start == IF i + 1 <= Len(matches) THEN matches[i + 1][1] ELSE Len(raw_text)
       IN IPMatchLoop(raw_text, matches, i + 1,
                      Append(before, Segment(Strip(Slice(raw_text, start, end)),
                                             Strip(Slice(raw_text, start, next_start)), 0)),
                      next_start)

\* the same with the last third cut at 3 * approx_segment_size, which loses
\* the tail of a text whose length is no multiple of 3
IPSegmentsRawCutTail(raw_text, dt) ==
  IF dt \in FilingTypes
  THEN LET matches == FindIter(raw_text, 0)
       IN IF matches # <<>>
          THEN IPMatchLoop(raw_text, matches, 1, <<>>, 0)
          ELSE LET approx_segment_size == Len(raw_text) \div 3
               IN << Segment(Str_part_1_business,
                             Slice(raw_text, 0, approx_segment_size), 0),
                     Segment(Str_part_2_financials,
                             Slice(raw_text, approx_segment_size, approx_segment_size * 2), 0),
                     Segment(Str_part_3_legal,
                             Slice(raw_text, approx_segment_size * 2,
                                   approx_segment_size * 3), 0) >>
  ELSE << Segment(Str_full_document, raw_text, 0) >>

\* the segments before the clean-up of empty ones
IPSegmentsRaw(raw_text, dt) ==
  IF dt \in FilingTypes
  THEN LET matches == FindIter(raw_text, 0)
       IN IF matches # <<>>
          THEN IPMatchLoop(raw_text, matches, 1, <<>>, 0)
          ELSE LET approx_segment_size == Len(raw_text) \div 3
               IN << Segment(Str_part_1_business,
                             Slice(raw_text, 0, approx_segment_size), 0),
                     Segment(Str_part_2_financials,
                             Slice(raw_text, approx_segment_size, approx_segment_size * 2), 0),
                     Segment(Str_part_3_legal,
                             Slice(raw_text, approx_segment_size * 2, Len(raw_text)), 0) >>
  ELSE << Segment(Str_full_document, raw_text, 0) >>

\* the function without its final clean-up of empty segments
IngestionPipeline_segment_document_unfiltered(raw_text, dt) ==
  IPSegmentsRaw(raw_text, dt)

\* segments = [s for s in segments if s["text"].strip()]
IngestionPipeline_segment_document(raw_text, dt) ==
  SelectSeq(IPSegmentsRaw(raw_text, dt), LAMBDA sg : Strip(sg.text) # <<>>)

(***************************************************************************)
(* The chunkers: SimpleRAG.chunk_document (rag_query.py) and the loop of   *)
(* main in simple_rag_query.py                                             *)
(***************************************************************************)
Returned(list) == [raised |-> FALSE, value |-> list]
Raised == [raised |-> TRUE, value |-> <<>>]

\* the body of "for i in range(0, len(content), step)" from i on, with the
\* break after the chunk that reaches the end of the document
RECURSIVE ChunkLoop(_, _, _, _, _)
ChunkLoop(doc, i, size, step, acc) ==
  IF i >= Len(doc) THEN acc
  ELSE LET chunk == Slice(doc, i, i + size)
       IN IF i + size >= Len(doc) THEN Append(acc, chunk)
          ELSE ChunkLoop(doc, i + step, size, step, Append(acc, chunk))

\* the loop with the break tested before the chunk is appended: the window
\* that reaches the end of the document is lost
RECURSIVE ChunkLoopBreakFirst(_, _, _, _, _)
ChunkLoopBreakFirst(doc, i, size, step, acc) ==
  IF i >= Len(doc) THEN acc
  ELSE IF i + size >= Len(doc) THEN acc
  ELSE ChunkLoopBreakFirst(doc, i + step, size, step,
                           Append(acc, Slice(doc, i, i + size)))

SimpleRAG_chunk_document_break_first(doc, size, ovl) ==
  IF size - ovl = 0 THEN Raised
  ELSE IF size - ovl < 0 THEN Returned(<<>>)
  ELSE Returned(ChunkLoopBreakFirst(doc, 0, size, size - ovl, <<>>))

\* range(0, n, step) raises ValueError for step = 0 and is empty for step < 0
SimpleRAG_chunk_document(doc, size, ovl) ==
  IF size - ovl = 0 THEN Raised
  ELSE IF size - ovl < 0 THEN Returned(<<>>)
  ELSE Returned(ChunkLoop(doc, 0, size, size - ovl, <<>>))

\* simple_rag_query.py: chunk_size = 1000, overlap = 100
WordChunkSize == 1000
WordOverlap == 100

\* for i in range(0, len(words), chunk_size - overlap): no break. A chunk is
\* kept as words[i:i+chunk_size], the list of words that " ".join strings
\* together, the word being the unit of this chunker.
RECURSIVE WordChunkLoop(_, _, _, _, _)
WordChunkLoop(words, i, size, step, acc) ==
  IF i >= Len(words) THEN acc
  ELSE WordChunkLoop(words, i + step, size, step, Append(acc, Slice(words, i, i + size)))

main_chunks(words) ==
  Returned(WordChunkLoop(words, 0, WordChunkSize, WordChunkSize - WordOverlap, <<>>))

(***************************************************************************)
(* DocumentRetriever (retrieval.py). The FAISS store is the list of the    *)
(* page_content it holds; building, saving and searching it can raise.     *)
(***************************************************************************)
None == [is_none |-> TRUE, docs |-> <<>>]
Store(docs) == [is_none |-> FALSE, docs |-> docs]

\* save_index: writes the store to index_path; a failure is caught
save_index(vs, file, save_ok) ==
  IF ~vs.is_none /\ save_ok THEN vs ELSE file

\* create_index, returning the new <<vectorstore, index_file>>: an empty
\* list returns at once; an exception of FAISS.from_documents is caught
create_index(vs, file, documents, faiss_ok, save_ok) ==
  IF documents = <<>> THEN <<vs, file>>
  ELSE IF faiss_ok
       THEN <<Store(documents), save_index(Store(documents), file, save_ok)>>
       ELSE <<vs, file>>

\* add_documents, returning the new <<vectorstore, index_file>>
add_documents(vs, file, documents, faiss_ok, save_ok) ==
  IF documents = <<>> THEN <<vs, file>>
  ELSE IF vs.is_none THEN create_index(vs, file, documents, faiss_ok, save_ok)
  ELSE IF faiss_ok
       THEN <<Store(vs.docs \o documents),
              save_index(Store(vs.docs \o documents), file, save_ok)>>
       ELSE <<vs, file>>

\* the injective index sequences of length n over 1..m
RECURSIVE Rankings(_, _)
Rankings(m, n) ==
  IF n = 0 THEN {<<>>}
  ELSE {Append(r, i) : r \in Rankings(m, n - 1), i \in 1..m} \cap
       {r \in [1..n -> 1..m] : \A a, b \in 1..n : a # b => r[a] # r[b]}

\* vectorstore.similarity_search(query, k): the min(k, n) nearest texts in
\* the order the embedding ranks them, which the model leaves open
SimilaritySearch(docs, k) ==
  {[i \in 1..Len(r) |-> docs[r[i]]] : r \in Rankings(Len(docs), Min(k, Len(docs)))}

\* the lists retrieve_context can return: [] without a store, [] when the
\* search raises, else the page_content of the documents found
retrieve_context(vs, k) ==
  IF vs.is_none THEN {<<>>}
  ELSE {<<>>} \cup SimilaritySearch(vs.docs, k)

(***************************************************************************)
(* The extractors (metric_extractor.py, sentiment_analyzer.py,             *)
(* risk_identifier.py, summary_generator.py). chain.run either raises or   *)
(* returns the model's response; run is that outcome.                      *)
(***************************************************************************)
Str_Error == <<"E", "r", "r", "o", "r">>
Str_Error_during_extraction ==
  Str_Error \o <<" ", "d", "u", "r", "i", "n", "g", " ",
                 "e", "x", "t", "r", "a", "c", "t", "i", "o", "n">>
Str_Error_during_analysis ==
  Str_Error \o <<" ", "d", "u", "r", "i", "n", "g", " ",
                 "a", "n", "a", "l", "y", "s", "i", "s">>
Str_Error_during_identification ==
  Str_Error \o <<" ", "d", "u", "r", "i", "n", "g", " ",
                 "i", "d", "e", "n", "t", "i", "f", "i", "c", "a", "t", "i", "o", "n">>
Str_Error_during_generation ==
  Str_Error \o <<" ", "d", "u", "r", "i", "n", "g", " ",
                 "g", "e", "n", "e", "r", "a", "t", "i", "o", "n">>

\* the response of the language model, wrapped in whitespace as completions are
Responses == { <<" ", "4", "2", "\n">> }

\* the outcomes of chain.run: an exception, or a response
ChainRun ==
  {[ok |-> FALSE, text |-> <<>>]} \cup {[ok |-> TRUE, text |-> r] : r \in Responses}

\* extract_metric with the try/except removed: the exception leaves the method
MetricExtractor_extract_metric_uncaught(run) ==
  IF run.ok THEN Returned(Strip(run.text)) ELSE Raised

MetricExtractor_extract_metric(run) ==
  IF run.ok THEN Returned(Strip(run.text))
  ELSE Returned(Str_Error_during_extraction)

SentimentAnalyzer_analyze_sentiment(run) ==
  IF run.ok THEN Returned(Strip(run.text))
  ELSE Returned(Str_Error_during_analysis)

RiskIdentifier_identify_risks(run) ==
  IF run.ok THEN Returned(Strip(run.text))
  ELSE Returned(Str_Error_during_identification)

SummaryGenerator_generate_summary(run) ==
  IF run.ok THEN Returned(Strip(run.text))
  ELSE Returned(Str_Error_during_generation)

(***************************************************************************)
(* Dictionaries, the default queries of process_document (pipeline.py) and *)
(* PredictionLogger.log_prediction (logger.py)                             *)
(***************************************************************************)
\* d[k] = v on a Python dict
Put(d, k, v) == [x \in (DOMAIN d) \cup {k} |-> IF x = k THEN v ELSE d[x]]

Str_Total_Revenue ==
  <<"T", "o", "t", "a", "l", " ", "R", "e", "v", "e", "n", "u", "e">>
Str_Net_Income == <<"N", "e", "t", " ", "I", "n", "c", "o", "m", "e">>
Str_EPS == <<"E", "P", "S">>
Str_Operating_Margin ==
  <<"O", "p", "e", "r", "a", "t", "i", "n", "g", " ", "M", "a", "r", "g", "i", "n">>
Str_Debt_to_Equity_Ratio ==
  <<"D", "e", "b", "t", " ", "t", "o", " ", "E", "q", "u", "i", "t", "y", " ",
    "R", "a", "t", "i", "o">>

DefaultQueries ==
  <<Str_Total_Revenue, Str_Net_Income, Str_EPS, Str_Operating_Margin,
    Str_Debt_to_Equity_Ratio>>

\* retrieve_context(query, k=5)
DefaultK == 5

\* strftime("%Y%m%d_%H%M%S"): fixed-width digits, the clock's second last
DigitChars == <<"0", "1", "2", "3", "4", "5", "6", "7", "8", "9">>
Stamp(clock) ==
  <<"2", "0", DigitChars[((clock \div 10) % 10) + 1], DigitChars[(clock % 10) + 1]>>

\* f"{document_id}_{timestamp}.json"
FileName(id, clock) == id \o <<"_">> \o Stamp(clock) \o <<".", "j", "s", "o", "n">>

\* log_prediction, returning the new predictions directory: the file is
\* named after the document id and the clock's second, and opened with 'w';
\* a failure is caught and nothing is written
log_prediction(dir, id, prediction, clock, write_ok) ==
  LET stamped == IF "timestamp" \in DOMAIN prediction THEN prediction
                 ELSE Put(prediction, "timestamp", clock)
      record == IF "document_id" \in DOMAIN stamped THEN stamped
                ELSE Put(stamped, "document_id", id)
  IN IF write_ok THEN Put(dir, FileName(id, clock), record) ELSE dir

(***************************************************************************)
(* IngestionPipeline.acquire_document / parse_document (ingest.py) and the *)
(* storage functions (storage.py), as functions of what the network, the   *)
(* parsers and the database do                                             *)
(***************************************************************************)
\* file_extension chosen from the content type
Extension(content_type) ==
  CASE content_type = "pdf" -> ".pdf"
    [] content_type = "html" -> ".html"
    [] content_type = "text" -> ".txt"
    [] OTHER -> ".bin"

\* doc_format chosen from the content type
DocFormat(content_type) ==
  IF content_type \in {"pdf", "html", "text"} THEN content_type ELSE "binary"

\* temp_dir/ingestion_<%Y%m%d%H%M%S><extension>
TempFilePath(clock, content_type) == <<"ingestion", clock, Extension(content_type)>>

\* acquire_document: a request error returns (None, None); an IOError
\* returns (None, None) after open() may have created the file; otherwise
\* the download is written to the temporary file
acquire_document(fs, clock, content_type, outcome) ==
  LET path == TempFilePath(clock, content_type)
  IN CASE outcome = "request_error" -> [files |-> fs, file_path |-> <<>>, doc_format |-> "none"]
       [] outcome = "open_error" -> [files |-> fs, file_path |-> <<>>, doc_format |-> "none"]
       [] outcome = "write_error" ->
            [files |-> fs \cup {path}, file_path |-> <<>>, doc_format |-> "none"]
       [] OTHER ->
            [files |-> fs \cup {path}, file_path |-> path,
             doc_format |-> DocFormat(content_type)]

AcquireOutcomes == {"request_error", "open_error", "write_error", "ok"}
ContentTypes == {"pdf", "html", "text", "octet-stream"}

\* what a parser does with the file: it raises, or returns a text
ParserRaised == [raised |-> TRUE, value |-> <<>>]
FileTexts == { <<>>, <<" ">>, <<"x">> }
ParserOutcomes == {ParserRaised} \cup {Returned(t) : t \in FileTexts}

\* parse_document: returns None or the text, and the parsers it tried.
\* PyMuPDF is tried only in the except branch of PDFMiner.
parse_document(fmt, primary, secondary) ==
  IF fmt = "pdf"
  THEN IF ~primary.raised
       THEN [is_none |-> FALSE, text |-> primary.value, tried |-> <<"pdfminer">>]
       ELSE IF ~secondary.raised
            THEN [is_none |-> FALSE, text |-> secondary.value,
                  tried |-> <<"pdfminer", "pymupdf">>]
            ELSE [is_none |-> TRUE, text |-> <<>>, tried |-> <<"pdfminer", "pymupdf">>]
  ELSE IF fmt \in {"html", "text"}
       THEN IF ~primary.raised
            THEN [is_none |-> FALSE, text |-> primary.value, tried |-> <<fmt>>]
            ELSE [is_none |-> TRUE, text |-> <<>>, tried |-> <<fmt>>]
       ELSE [is_none |-> TRUE, text |-> <<>>, tried |-> <<>>]

\* save_document: the new rows and the id returned, 0 standing for None;
\* a database error is caught and None returned
DbOutcomes == {"saved", "failed", "raised"}
save_document(rows, document_data, outcome) ==
  IF outcome = "saved"
  THEN [rows |-> Append(rows, document_data), document_id |-> Len(rows) + 1]
  ELSE [rows |-> rows, document_id |-> 0]

\* save_segments: one row per segment, committed together or not at all
save_segments(rows, segs, id, outcome) ==
  IF outcome = "saved"
  THEN rows \o [i \in 1..Len(segs) |->
                  [document_id |-> id, section_type |-> segs[i].section_type,
                   text |-> segs[i].text]]
  ELSE rows

(***************************************************************************)
(* Input texts: concatenations of at most MaxPieces pieces                 *)
(***************************************************************************)
Pieces ==
  { <<"x">>, <<" ">>, <<"\n">>, <<"\t">>, <<" ", "\t">>, <<"#">>,
    <<"I", "T", "E", "M", " ", "1", ".", " ", "B">> }

RECURSIVE TextsUpTo(_)
TextsUpTo(n) ==
  IF n = 0 THEN {<<>>}
  ELSE LET prev == TextsUpTo(n - 1)
       IN prev \cup {p \o t : p \in Pieces, t \in prev}

Texts == TextsUpTo(MaxPieces)

RetrIdle ==
  /\ vectorstore = None
  /\ index_file = None
  /\ last_create_arg = [called |-> FALSE, documents |-> <<>>, add_called |-> FALSE]
  /\ retr_calls = 0
  /\ ret_pc = "idle"
  /\ retrieved = <<>>

ChunkIdle ==
  /\ chunker = "none"
  /\ document_content = <<>>
  /\ chunk_size = 0
  /\ overlap = 0
  /\ chunk_pc = "idle"
  /\ chunks = <<>>

NlpIdle ==
  /\ now = 0
  /\ document_text = <<>>
  /\ document_id = <<>>
  /\ queries_arg = [is_none |-> TRUE, list |-> <<>>]
  /\ queries = <<>>
  /\ nlp_pc = "off"
  /\ qi = 0
  /\ start_time = 0
  /\ insights = <<>>
  /\ llm_calls = <<>>
  /\ predictions_dir = <<>>
  /\ nlp_returned = <<>>

IngIdle ==
  /\ document_list = <<>>
  /\ doc_i = 0
  /\ ing_pc = "off"
  /\ files = {}
  /\ ing_file_path = <<>>
  /\ ing_doc_format = "none"
  /\ ing_raw_text = <<>>
  /\ ing_segments = <<>>
  /\ db_documents = <<>>
  /\ db_segments = <<>>
  /\ stage_log = <<>>
  /\ ing_result = <<>>
  /\ results = <<>>

MonIdle ==
  /\ corrections_dir = <<>>
  /\ feedback_dir = <<>>
  /\ log_history = <<>>
  /\ got_prediction = <<>>
  /\ acc_gold = <<>>
  /\ acc_predictions = <<>>
  /\ acc_metrics = <<>>
  /\ drift_current = <<>>
  /\ drift_baseline = <<>>
  /\ drift_result = <<>>
  /\ mon_pc = "off"

ApiIdle ==
  /\ api_pc = "off"
  /\ api_run = <<>>
  /\ db_insights = <<>>
  /\ upload_log = <<>>
  /\ analysis_log = <<>>
  /\ got_insights = <<>>

DashIdle ==
  /\ current_document_id = <<>>
  /\ current_prediction = <<>>
  /\ corrections_cache = <<>>
  /\ accepted = <<>>
  /\ dash_returned = <<>>
  /\ dash_pc = "off"

TextIdle ==
  /\ text = <<>>
  /\ doc_type = "none"
  /\ layout = <<>>
  /\ clean_pc = "idle"
  /\ clean_out = <<>>
  /\ clean_out2 = <<>>
  /\ seg_pc = "idle"
  /\ segments = <<>>

(***************************************************************************)
(* SpecClean: a normaliser applied once and then again to its own output   *)
(***************************************************************************)
InitClean ==
  /\ text \in Texts
  /\ doc_type = "none"
  /\ layout = <<>>
  /\ clean_pc = "idle"
  /\ clean_out = <<>>
  /\ clean_out2 = <<>>
  /\ seg_pc = "idle"
  /\ segments = <<>>
  /\ ChunkIdle
  /\ RetrIdle
  /\ NlpIdle
  /\ IngIdle
  /\ MonIdle
  /\ ApiIdle
  /\ DashIdle

DPClean ==
  /\ clean_pc = "idle"
  /\ clean_out' = DocumentProcessor_clean_text(text)
  /\ clean_pc' = "dp_once"
  /\ UNCHANGED <<text, doc_type, layout, clean_out2, seg_pc, segments>>
  /\ UNCHANGED NotText

DPCleanAgain ==
  /\ clean_pc = "dp_once"
  /\ clean_out2' = DocumentProcessor_clean_text(clean_out)
  /\ clean_pc' = "dp_twice"
  /\ UNCHANGED <<text, doc_type, layout, clean_out, seg_pc, segments>>
  /\ UNCHANGED NotText

IPClean ==
  /\ clean_pc = "idle"
  /\ clean_out' = IngestionPipeline_clean_text(text)
  /\ clean_pc' = "ip_once"
  /\ UNCHANGED <<text, doc_type, layout, clean_out2, seg_pc, segments>>
  /\ UNCHANGED NotText

IPCleanAgain ==
  /\ clean_pc = "ip_once"
  /\ clean_out2' = IngestionPipeline_clean_text(clean_out)
  /\ clean_pc' = "ip_twice"
  /\ UNCHANGED <<text, doc_type, layout, clean_out, seg_pc, segments>>
  /\ UNCHANGED NotText

NextClean == DPClean \/ DPCleanAgain \/ IPClean \/ IPCleanAgain

SpecClean == InitClean /\ [][NextClean]_vars

\* C1: both normalisers are idempotent: cleaning an already cleaned text
\* returns it unchanged, for every text (empty and whitespace-only included).
C1_Idempotent ==
  clean_pc \in {"dp_twice", "ip_twice"} => clean_out2 = clean_out

\* a text with tabs/newlines/runs of blanks has been cleaned twice by each
C1_Witness ==
  /\ clean_pc = "ip_twice"
  /\ clean_out # text
  /\ \E i \in 1..Len(clean_out) : clean_out[i] = " "
  /\ \E i \in 1..Len(text) : text[i] = "\n"
  /\ \E i \in 1..(Len(text) - 1) : text[i] \in Whitespace /\ text[i + 1] \in Whitespace

(***************************************************************************)
(* SpecSegment: one segmenter call on a free text or on a headed document  *)
(***************************************************************************)
Heading_Item1 == <<"I", "T", "E", "M", " ", "1", ".", " ", "B">>
Heading_Item1A == <<"i", "t", "e", "m", " ", "1", "A", ".", " ", "R">>
Heading_Hash == <<"#", " ", "T">>
Heading_SECTION == Str_SECTION \o <<" ", "2">>

ItemHeadings == {Heading_Item1, Heading_Item1A}
MarkerHeadings == {Heading_Hash, Heading_SECTION}
Bodies == { <<"x">>, <<"x", " ", "x">>, <<"x", "\n", "x">> }

RECURSIVE SectionLists(_, _)
SectionLists(headings, n) ==
  IF n = 0 THEN {<<>>}
  ELSE {<<[heading |-> h, body |-> b]>> \o rest :
          h \in headings, b \in Bodies, rest \in SectionLists(headings, n - 1)}

\* headed documents: every heading line is followed by a body, all headings
\* of one family
Layouts ==
  UNION {SectionLists(ItemHeadings, n) \cup SectionLists(MarkerHeadings, n) :
           n \in 1..MaxSections}

Render(doc) ==
  Join([i \in 1..Len(doc) |-> doc[i].heading \o <<"\n">> \o doc[i].body], <<"\n">>)

DocTypes == {"10-K", "10-Q", "earnings_call"}

InitSegment ==
  /\ \/ layout = <<>> /\ text \in Texts
     \/ layout \in Layouts /\ text = Render(layout)
  /\ doc_type = "none"
  /\ clean_pc = "idle"
  /\ clean_out = <<>>
  /\ clean_out2 = <<>>
  /\ seg_pc = "idle"
  /\ segments = <<>>
  /\ ChunkIdle
  /\ RetrIdle
  /\ NlpIdle
  /\ IngIdle
  /\ MonIdle
  /\ ApiIdle
  /\ DashIdle

DPSegment ==
  /\ seg_pc = "idle"
  /\ segments' = DocumentProcessor_segment_document(text)
  /\ seg_pc' = "dp"
  /\ UNCHANGED <<text, doc_type, layout, clean_pc, clean_out, clean_out2>>
  /\ UNCHANGED NotText

IPSegment ==
  /\ seg_pc = "idle"
  /\ \E dt \in DocTypes :
       /\ doc_type' = dt
       /\ segments' = IngestionPipeline_segment_document(text, dt)
  /\ seg_pc' = "ip"
  /\ UNCHANGED <<text, layout, clean_pc, clean_out, clean_out2>>
  /\ UNCHANGED NotText

NextSegment == DPSegment \/ IPSegment

SpecSegment == InitSegment /\ [][NextSegment]_vars

NoWs(s) == SelectSeq(s, LAMBDA c : c \notin Whitespace)
HasNonWs(s) == \E i \in 1..Len(s) : s[i] \notin Whitespace
Concat(parts) == Join(parts, <<>>)

\* the stripped input lines that are neither blank nor marker lines
DPBodyLines(t) ==
  LET lines == SplitLines(t)
  IN SelectSeq([i \in 1..Len(lines) |-> Strip(lines[i])],
               LAMBDA l : l # <<>> /\ ~IsMarkerLine(l))

\* the lines of all returned segments, in order
SegmentLines(segs) ==
  Concat([i \in 1..Len(segs) |-> SplitLines(segs[i].text)])

\* the text outside the spans of the heading matches
OutsideSpans(t, spans) ==
  LET keep(o) == \A k \in 1..Len(spans) : ~(spans[k][1] <= o /\ o < spans[k][2])
      F[i \in 0..Len(t)] ==
        IF i = 0 THEN <<>>
        ELSE IF keep(i - 1) THEN Append(F[i - 1], t[i]) ELSE F[i - 1]
  IN F[Len(t)]

FixedLabels ==
  {Str_unknown, Str_part_1_business, Str_part_2_financials, Str_part_3_legal,
   Str_full_document}

\* a returned segment less the heading that labels it
SegmentBody(sg) ==
  IF sg.section_type \notin FixedLabels /\ StartsWith(sg.text, sg.section_type)
  THEN SubSeq(sg.text, Len(sg.section_type) + 1, Len(sg.text))
  ELSE sg.text

\* C2: the returned segments hold, in input order and up to whitespace,
\* every non-blank input line that is no heading line exactly once: for
\* DocumentProcessor the lines of the segments are the non-marker lines of
\* the input; for IngestionPipeline the segment texts less their own heading
\* are the input less its heading matches.
C2_BodyLinesOnce ==
  /\ seg_pc = "dp" =>
       LET got == SegmentLines(segments)
           want == DPBodyLines(text)
       IN [i \in 1..Len(got) |-> NoWs(got[i])] = [i \in 1..Len(want) |-> NoWs(want[i])]
  /\ seg_pc = "ip" =>
       NoWs(Concat([i \in 1..Len(segments) |-> SegmentBody(segments[i])]))
         = NoWs(IF doc_type \in FilingTypes
                THEN OutsideSpans(text, FindIter(text, 0))
                ELSE text)

\* body lines on both sides of a marker line, returned in two segments
C2_Witness ==
  /\ seg_pc = "dp"
  /\ Len(segments) = 2
  /\ Len(DPBodyLines(text)) >= 2
  /\ \E i \in 1..Len(SplitLines(text)) : IsMarkerLine(Strip(SplitLines(text)[i]))

\* the paragraphs of a text: what lies between its runs of newlines
ParagraphsOf(t) == SelectSeq(SplitLines(t), LAMBDA l : l # <<>>)

\* a text made of non-blank paragraphs separated by runs of newlines
IsParagraphText(t) ==
  /\ t # <<>>
  /\ t[1] # "\n"
  /\ t[Len(t)] # "\n"
  /\ \A i \in 1..Len(ParagraphsOf(t)) : HasNonWs(ParagraphsOf(t)[i])

\* C22: IngestionPipeline.clean_text preserves paragraph boundaries: for a
\* text made of non-blank paragraphs separated by runs of one or more
\* newlines, the output holds the same paragraphs, in order, separated by
\* exactly one newline each, only other whitespace being collapsed.
C22_ParagraphsKept ==
  (clean_pc \in {"ip_once", "ip_twice"} /\ IsParagraphText(text)) =>
    LET paragraphs == ParagraphsOf(text)
        out == SplitLines(clean_out)
    IN /\ Len(out) = Len(paragraphs)
       /\ \A i \in 1..Len(paragraphs) : NoWs(out[i]) = NoWs(paragraphs[i])

\* C3 as stated: a non-empty text always yields at least one segment, all
\* segments have non-whitespace text, and the empty text yields none.
C3_NonEmptyHasSegment ==
  seg_pc # "idle" =>
    /\ text # <<>> => Len(segments) >= 1
    /\ \A i \in 1..Len(segments) : HasNonWs(segments[i].text)
    /\ text = <<>> => segments = <<>>

\* C3 amended: a text with a non-blank line that is no heading line
\* (DocumentProcessor) or with any non-whitespace character
\* (IngestionPipeline) yields at least one segment; every returned segment
\* has non-whitespace text; an empty or whitespace-only text yields none.
C3_NonBlankHasSegment ==
  seg_pc # "idle" =>
    /\ (seg_pc = "dp" /\ DPBodyLines(text) # <<>>) => Len(segments) >= 1
    /\ (seg_pc = "ip" /\ HasNonWs(text)) => Len(segments) >= 1
    /\ \A i \in 1..Len(segments) : HasNonWs(segments[i].text)
    /\ ~HasNonWs(text) => segments = <<>>

\* a text whose middle third is blank: the clean-up removed a segment
C3_Witness ==
  /\ seg_pc = "ip"
  /\ doc_type \in FilingTypes
  /\ FindIter(text, 0) = <<>>
  /\ Len(segments) = 2
  /\ HasNonWs(text)

AllItemHeadings(doc) == \A i \in 1..Len(doc) : doc[i].heading \in ItemHeadings
AllMarkerHeadings(doc) == \A i \in 1..Len(doc) : doc[i].heading \in MarkerHeadings

LabelsAndTexts(segs) ==
  [i \in 1..Len(segs) |-> <<segs[i].section_type, segs[i].text>>]

\* C4 as stated: for filing headings each followed by a body, one segment
\* per heading, labelled with the heading, whose text is the body alone.
C4_BodyWithoutHeading ==
  (seg_pc # "idle" /\ layout # <<>> /\ AllItemHeadings(layout)
     /\ (seg_pc = "ip" => doc_type \in FilingTypes)) =>
    LabelsAndTexts(segments)
      = [i \in 1..Len(layout) |-> <<layout[i].heading, layout[i].body>>]

\* C4 amended: IngestionPipeline (doc_type 10-K/10-Q) returns one segment per
\* filing heading, in order, labelled with the heading line, whose text is
\* the heading line followed by its body; DocumentProcessor does so for its
\* own marker lines (#, Section, SECTION), labelled with the marker line less
\* leading #, the text being the body without the marker line.
C4_HeadingThenBody ==
  /\ (seg_pc = "ip" /\ doc_type \in FilingTypes /\ layout # <<>>
        /\ AllItemHeadings(layout)) =>
       segments = [i \in 1..Len(layout) |->
                     Segment(layout[i].heading,
                             layout[i].heading \o <<"\n">> \o layout[i].body, 0)]
  /\ (seg_pc = "dp" /\ layout # <<>> /\ AllMarkerHeadings(layout)) =>
       segments = [i \in 1..Len(layout) |->
                     Segment(Strip(LStripChars(layout[i].heading, {"#"})),
                             layout[i].body, 1)]

\* two filing headings, one of them lower-case with a letter suffix
C4_Witness ==
  /\ seg_pc = "ip"
  /\ doc_type = "10-K"
  /\ Len(layout) = 2
  /\ layout[1].heading = Heading_Item1
  /\ layout[2].heading = Heading_Item1A
  /\ Len(segments) = 2

ThirdsNonBlank(t) ==
  LET k == Len(t) \div 3
  IN /\ HasNonWs(Slice(t, 0, k))
     /\ HasNonWs(Slice(t, k, 2 * k))
     /\ HasNonWs(Slice(t, 2 * k, Len(t)))

ThreeSlices(t) ==
  LET k == Len(t) \div 3
  IN << Segment(Str_part_1_business, Slice(t, 0, k), 0),
        Segment(Str_part_2_financials, Slice(t, k, 2 * k), 0),
        Segment(Str_part_3_legal, Slice(t, 2 * k, Len(t)), 0) >>

\* C5 as stated: every text without a recognised heading whose thirds are
\* non-blank is returned as the three labelled slices [0,k), [k,2k), [2k,n).
C5_ThreeSlicesAnyType ==
  (seg_pc = "ip" /\ FindIter(text, 0) = <<>> /\ ThirdsNonBlank(text)) =>
    /\ segments = ThreeSlices(text)
    /\ Concat([i \in 1..Len(segments) |-> segments[i].text]) = text

\* C5 amended: the same for doc_type 10-K or 10-Q (any other doc_type is
\* returned as the single segment full_document).
C5_ThreeSlicesFiling ==
  (seg_pc = "ip" /\ doc_type \in FilingTypes /\ FindIter(text, 0) = <<>>
     /\ ThirdsNonBlank(text)) =>
    /\ segments = ThreeSlices(text)
    /\ Concat([i \in 1..Len(segments) |-> segments[i].text]) = text

\* a text of a length that is no multiple of 3, split by the fallback
C5_Witness ==
  /\ seg_pc = "ip"
  /\ doc_type = "10-Q"
  /\ FindIter(text, 0) = <<>>
  /\ ThirdsNonBlank(text)
  /\ Len(text) % 3 = 2
  /\ Len(segments) = 3

(***************************************************************************)
(* SpecChunk: one call of a chunker                                        *)
(***************************************************************************)
\* a document of n units; unit p (0-based) is the number p, so that a chunk
\* tells which positions it holds
Units(n) == [i \in 1..n |-> i - 1]

InitChunk ==
  /\ \/ /\ chunker = "SimpleRAG"
        /\ document_content \in {Units(n) : n \in 0..MaxContent}
        /\ chunk_size \in 1..MaxChunkSize
        /\ overlap \in 0..(MaxChunkSize + 1)
     \/ /\ chunker = "main"
        /\ document_content \in {Units(n) : n \in (0..3) \cup ((WordChunkSize - WordOverlap - 3)..MaxWords)}
        /\ chunk_size = WordChunkSize
        /\ overlap = WordOverlap
  /\ chunk_pc = "idle"
  /\ chunks = <<>>
  /\ TextIdle
  /\ RetrIdle
  /\ NlpIdle
  /\ IngIdle
  /\ MonIdle
  /\ ApiIdle
  /\ DashIdle

ChunkDocument ==
  /\ chunk_pc = "idle"
  /\ chunker = "SimpleRAG"
  /\ LET r == SimpleRAG_chunk_document(document_content, chunk_size, overlap)
     IN /\ chunk_pc' = IF r.raised THEN "raised" ELSE "returned"
        /\ chunks' = r.value
  /\ UNCHANGED <<chunker, document_content, chunk_size, overlap>>
  /\ UNCHANGED NotChunk

MainChunks ==
  /\ chunk_pc = "idle"
  /\ chunker = "main"
  /\ LET r == main_chunks(document_content)
     IN /\ chunk_pc' = IF r.raised THEN "raised" ELSE "returned"
        /\ chunks' = r.value
  /\ UNCHANGED <<chunker, document_content, chunk_size, overlap>>
  /\ UNCHANGED NotChunk

NextChunk == ChunkDocument \/ MainChunks

SpecChunk == InitChunk /\ [][NextChunk]_vars

ChunkStart(j) == j * (chunk_size - overlap)
ChunkEnd(j) == ChunkStart(j) + Len(chunks[j + 1])

\* C6: with 0 <= overlap < chunk_size the chunker returns; chunk j is the
\* window of the text that starts at j * (chunk_size - overlap); every
\* position of the text lies in some chunk; and two consecutive chunks share
\* exactly overlap units, except possibly the pair that ends in the final
\* chunk.
C6_ChunkCoverage ==
  (chunk_pc # "idle" /\ 0 <= overlap /\ overlap < chunk_size) =>
    /\ chunk_pc = "returned"
    /\ \A j \in 0..(Len(chunks) - 1) :
         chunks[j + 1] = Slice(document_content, ChunkStart(j), ChunkStart(j) + chunk_size)
    /\ \A p \in 0..(Len(document_content) - 1) :
         \E j \in 0..(Len(chunks) - 1) : ChunkStart(j) <= p /\ p < ChunkEnd(j)
    /\ \A j \in 0..(Len(chunks) - 3) :
         Max(0, Min(ChunkEnd(j), ChunkEnd(j + 1)) - ChunkStart(j + 1)) = overlap

\* a text cut into at least three chunks with a positive overlap and a
\* final chunk shorter than chunk_size
C6_Witness ==
  /\ chunker = "SimpleRAG"
  /\ chunk_pc = "returned"
  /\ overlap > 0
  /\ overlap < chunk_size
  /\ Len(chunks) >= 3
  /\ Len(chunks[Len(chunks)]) < chunk_size

\* C7: with overlap >= chunk_size the chunker fails; it never returns a
\* chunk list.
C7_InvalidConfigRaises ==
  (chunker = "SimpleRAG" /\ chunk_pc # "idle" /\ overlap >= chunk_size) =>
    chunk_pc = "raised"

(***************************************************************************)
(* SpecRetriever: create_index / add_documents / retrieve_context calls on *)
(* one DocumentRetriever                                                   *)
(***************************************************************************)
ChunkTexts == { <<"a">>, <<"b">> }

RECURSIVE ListsUpTo(_, _)
ListsUpTo(S, n) ==
  IF n = 0 THEN {<<>>}
  ELSE ListsUpTo(S, n - 1) \cup
       {Append(l, x) : l \in {l \in ListsUpTo(S, n - 1) : Len(l) = n - 1}, x \in S}

DocLists == ListsUpTo(ChunkTexts, MaxDocs)
Queries == {"Total Revenue", "risk factors"}

InitRetriever ==
  /\ RetrIdle
  /\ TextIdle
  /\ ChunkIdle
  /\ NlpIdle
  /\ IngIdle
  /\ MonIdle
  /\ ApiIdle
  /\ DashIdle

CreateIndex ==
  /\ retr_calls < MaxCalls
  /\ \E documents \in DocLists, faiss_ok \in BOOLEAN, save_ok \in BOOLEAN :
       LET r == create_index(vectorstore, index_file, documents, faiss_ok, save_ok)
       IN /\ vectorstore' = r[1]
          /\ index_file' = r[2]
          /\ last_create_arg' =
               [last_create_arg EXCEPT !.called = TRUE, !.documents = documents]
  /\ retr_calls' = retr_calls + 1
  /\ ret_pc' = "idle"
  /\ retrieved' = <<>>
  /\ UNCHANGED NotRetr

AddDocuments ==
  /\ retr_calls < MaxCalls
  /\ \E documents \in DocLists, faiss_ok \in BOOLEAN, save_ok \in BOOLEAN :
       LET r == add_documents(vectorstore, index_file, documents, faiss_ok, save_ok)
       IN /\ vectorstore' = r[1]
          /\ index_file' = r[2]
          /\ last_create_arg' =
               IF documents # <<>> /\ vectorstore.is_none
               THEN [called |-> TRUE, documents |-> documents, add_called |-> TRUE]
               ELSE [last_create_arg EXCEPT !.add_called = TRUE]
  /\ retr_calls' = retr_calls + 1
  /\ ret_pc' = "idle"
  /\ retrieved' = <<>>
  /\ UNCHANGED NotRetr

RetrieveContext ==
  /\ \E query \in Queries, k \in 1..MaxK :
       \E result \in retrieve_context(vectorstore, k) :
         retrieved' = result
  /\ ret_pc' = "returned"
  /\ UNCHANGED <<vectorstore, index_file, last_create_arg, retr_calls>>
  /\ UNCHANGED NotRetr

NextRetriever == CreateIndex \/ AddDocuments \/ RetrieveContext

SpecRetriever == InitRetriever /\ [][NextRetriever]_vars

\* C8: when the latest create_index call received an empty list, and when
\* no index was ever built, retrieve_context returns [] and does not raise.
C8_EmptyBuildRetrievesNothing ==
  ret_pc # "idle" =>
    /\ ret_pc = "returned"
    /\ (last_create_arg.called /\ last_create_arg.documents = <<>>) => retrieved = <<>>
    /\ ~last_create_arg.called /\ vectorstore.is_none => retrieved = <<>>

\* C9: after a sequence of create_index calls, every text retrieve_context
\* returns belongs to the list given to the latest create_index call.
C9_LastBuildWins ==
  (ret_pc = "returned" /\ last_create_arg.called /\ ~last_create_arg.add_called) =>
    \A i \in 1..Len(retrieved) :
      \E j \in 1..Len(last_create_arg.documents) :
        retrieved[i] = last_create_arg.documents[j]

(***************************************************************************)
(* SpecNlp: one run of NLPLlmPipeline.process_document on a pipeline whose *)
(* retriever is fresh or still holds the index of another document         *)
(***************************************************************************)
\* "\n\n".join(segment_texts)
FullDocument(segs) == Join([i \in 1..Len(segs) |-> segs[i].text], <<"\n", "\n">>)

DocumentTexts == { <<>>, <<"a">> }
OtherDocument == <<"b">>
DocumentIds == { <<>>, <<"d", "1">> }
Str_Key_risks == <<"K", "e", "y", " ", "r", "i", "s", "k", "s">>
QueryTexts == {Str_EPS, Str_Key_risks}
QueryLists == ListsUpTo(QueryTexts, MaxQueries)

InitNlp ==
  /\ now = 0
  /\ document_text \in DocumentTexts
  /\ document_id \in DocumentIds
  /\ queries_arg \in {[is_none |-> TRUE, list |-> <<>>]} \cup
                     {[is_none |-> FALSE, list |-> l] : l \in QueryLists}
  /\ queries = <<>>
  /\ nlp_pc = "called"
  /\ qi = 0
  /\ start_time = 0
  /\ insights = <<>>
  /\ llm_calls = <<>>
  /\ predictions_dir = <<>>
  /\ nlp_returned = <<>>
  /\ \/ RetrIdle
     \/ /\ vectorstore = Store(<<OtherDocument>>)
        /\ index_file = Store(<<OtherDocument>>)
        /\ last_create_arg =
             [called |-> TRUE, documents |-> <<OtherDocument>>, add_called |-> FALSE]
        /\ retr_calls = 1
        /\ ret_pc = "idle"
        /\ retrieved = <<>>
  /\ TextIdle
  /\ ChunkIdle
  /\ IngIdle
  /\ MonIdle
  /\ ApiIdle
  /\ DashIdle

\* datetime.now() moves on between any two steps
Tick ==
  /\ now < MaxTime
  /\ now' = now + 1
  /\ UNCHANGED <<document_text, document_id, queries_arg, queries, nlp_pc, qi,
                 start_time, insights, llm_calls, predictions_dir, nlp_returned>>
  /\ UNCHANGED <<retrVars, NotNlp>>

\* entry of process_document up to the query loop: the empty-text return,
\* the default queries, the insights dictionary and create_index
PDStart ==
  /\ nlp_pc = "called"
  /\ IF document_text = <<>>
     THEN /\ nlp_returned' = [error |-> "Empty document text provided."]
          /\ nlp_pc' = "done"
          /\ UNCHANGED <<queries, qi, start_time, insights, retrVars>>
     ELSE /\ queries' = IF queries_arg.is_none THEN DefaultQueries ELSE queries_arg.list
          /\ start_time' = now
          /\ insights' = [document_id |-> document_id, company |-> "Unknown",
                          processing_time |-> "None", model_version |-> "LLM_CONFIG.model",
                          timestamp |-> now, extracted_metrics |-> <<>>]
          /\ \E faiss_ok \in BOOLEAN, save_ok \in BOOLEAN :
               LET r == create_index(vectorstore, index_file, <<document_text>>,
                                     faiss_ok, save_ok)
               IN /\ vectorstore' = r[1]
                  /\ index_file' = r[2]
          /\ last_create_arg' =
               [last_create_arg EXCEPT !.called = TRUE, !.documents = <<document_text>>]
          /\ retr_calls' = retr_calls + 1
          /\ qi' = 1
          /\ nlp_pc' = "queries"
          /\ UNCHANGED <<ret_pc, retrieved, nlp_returned>>
  /\ UNCHANGED <<now, document_text, document_id, queries_arg, llm_calls, predictions_dir>>
  /\ UNCHANGED NotNlp

\* a loop that stops one query short of the end of the list
QueryLoopDoneEarly(i, qs) == i >= Len(qs)

\* "for query in queries" has run through the list
QueryLoopDone(i, qs) == i > Len(qs)

\* one turn of "for query in queries": retrieve_context, the fallback to the
\* whole document, and extract_metric
PDQuery ==
  /\ nlp_pc = "queries"
  /\ ~QueryLoopDone(qi, queries)
  /\ \E query_context \in retrieve_context(vectorstore, DefaultK), run \in ChainRun :
       LET query == queries[qi]
           context == IF query_context = <<>> THEN <<document_text>> ELSE query_context
           context_text == Join(context, <<" ">>)
           r == MetricExtractor_extract_metric(run)
       IN /\ retrieved' = query_context
          /\ ret_pc' = "returned"
          /\ llm_calls' = Append(llm_calls,
               [extractor |-> "metric", question |-> query, context |-> context_text,
                ok |-> run.ok, text |-> run.text])
          /\ IF r.raised
             THEN /\ nlp_pc' = "raised"
                  /\ UNCHANGED <<insights, qi>>
             ELSE /\ insights' = Put(insights, "extracted_metrics",
                                     Put(insights.extracted_metrics, query, r.value))
                  /\ qi' = qi + 1
                  /\ nlp_pc' = nlp_pc
  /\ UNCHANGED <<now, document_text, document_id, queries_arg, queries, start_time,
                 predictions_dir, nlp_returned>>
  /\ UNCHANGED <<vectorstore, index_file, last_create_arg, retr_calls>>
  /\ UNCHANGED NotNlp

\* insights["sentiment"] = analyze_sentiment(document_text)
PDSentiment ==
  /\ nlp_pc = "queries"
  /\ QueryLoopDone(qi, queries)
  /\ \E run \in ChainRun :
       LET r == SentimentAnalyzer_analyze_sentiment(run)
       IN /\ llm_calls' = Append(llm_calls,
               [extractor |-> "sentiment", question |-> <<>>, context |-> document_text,
                ok |-> run.ok, text |-> run.text])
          /\ IF r.raised
             THEN /\ nlp_pc' = "raised"
                  /\ UNCHANGED insights
             ELSE /\ insights' = Put(insights, "sentiment", r.value)
                  /\ nlp_pc' = "risks"
  /\ UNCHANGED <<now, document_text, document_id, queries_arg, queries, qi, start_time,
                 predictions_dir, nlp_returned>>
  /\ UNCHANGED <<retrVars, NotNlp>>

\* insights["risks"] = identify_risks(document_text)
PDRisks ==
  /\ nlp_pc = "risks"
  /\ \E run \in ChainRun :
       LET r == RiskIdentifier_identify_risks(run)
       IN /\ llm_calls' = Append(llm_calls,
               [extractor |-> "risks", question |-> <<>>, context |-> document_text,
                ok |-> run.ok, text |-> run.text])
          /\ IF r.raised
             THEN /\ nlp_pc' = "raised"
                  /\ UNCHANGED insights
             ELSE /\ insights' = Put(insights, "risks", r.value)
                  /\ nlp_pc' = "summary"
  /\ UNCHANGED <<now, document_text, document_id, queries_arg, queries, qi, start_time,
                 predictions_dir, nlp_returned>>
  /\ UNCHANGED <<retrVars, NotNlp>>

\* insights["summary"] = generate_summary(document_text)
PDSummary ==
  /\ nlp_pc = "summary"
  /\ \E run \in ChainRun :
       LET r == SummaryGenerator_generate_summary(run)
       IN /\ llm_calls' = Append(llm_calls,
               [extractor |-> "summary", question |-> <<>>, context |-> document_text,
                ok |-> run.ok, text |-> run.text])
          /\ IF r.raised
             THEN /\ nlp_pc' = "raised"
                  /\ UNCHANGED insights
             ELSE /\ insights' = Put(insights, "summary", r.value)
                  /\ nlp_pc' = "finish"
  /\ UNCHANGED <<now, document_text, document_id, queries_arg, queries, qi, start_time,
                 predictions_dir, nlp_returned>>
  /\ UNCHANGED <<retrVars, NotNlp>>

\* source_reference, processing_time, log_prediction when a document id was
\* given, and the return
PDFinish ==
  /\ nlp_pc = "finish"
  /\ \E write_ok \in BOOLEAN :
       LET source_reference ==
             [document_id |-> document_id, company |-> "Unknown",
              document_date |-> "Unknown", document_type |-> "Unknown"]
           final == Put(Put(insights, "source_reference", source_reference),
                        "processing_time", now - start_time)
       IN /\ insights' = final
          /\ predictions_dir' =
               IF document_id # <<>>
               THEN log_prediction(predictions_dir, document_id, final, now, write_ok)
               ELSE predictions_dir
          /\ nlp_returned' = final
  /\ nlp_pc' = "done"
  /\ UNCHANGED <<now, document_text, document_id, queries_arg, queries, qi, start_time,
                 llm_calls>>
  /\ UNCHANGED <<retrVars, NotNlp>>

PDStep == PDStart \/ PDQuery \/ PDSentiment \/ PDRisks \/ PDSummary \/ PDFinish

NextNlp == PDStep \/ Tick

SpecNlp == InitNlp /\ [][NextNlp]_vars

\* the field of a record that holds the result of a call
FieldOf(record, call) ==
  IF call.extractor = "metric" THEN record.extracted_metrics[call.question]
  ELSE record[call.extractor]

\* call i is the one whose result its field keeps: a metric call is
\* overwritten by a later call for the same query
KeptCall(i) ==
  llm_calls[i].extractor = "metric" =>
    \A j \in (i + 1)..Len(llm_calls) :
      llm_calls[j].extractor = "metric" => llm_calls[j].question # llm_calls[i].question

OwnContexts ==
  {Join([j \in 1..n |-> document_text], <<" ">>) : n \in 1..DefaultK}

\* C26: on a pipeline instance shared by successive document runs, the
\* context passed to an extractor in a run consists only of text of that
\* run's document, also when the index build of the run fails.
C26_OwnDocumentContext ==
  \A i \in 1..Len(llm_calls) : llm_calls[i].context \in OwnContexts

(***************************************************************************)
(* SpecSegmentsRun: one run of NLPLlmPipeline.process_document_segments on *)
(* a new pipeline                                                          *)
(***************************************************************************)
SegmentTexts == { <<"a">>, <<"c">> }
SegmentArgs ==
  ListsUpTo({[section_type |-> "Full Document", text |-> t] : t \in SegmentTexts}, MaxDocs)

InitSegmentsRun ==
  /\ now = 0
  /\ segments \in SegmentArgs
  /\ document_text = <<>>
  /\ document_id \in DocumentIds
  /\ queries_arg = [is_none |-> FALSE, list |-> <<Str_EPS>>]
  /\ queries = <<>>
  /\ nlp_pc = "segments_called"
  /\ qi = 0
  /\ start_time = 0
  /\ insights = <<>>
  /\ llm_calls = <<>>
  /\ predictions_dir = <<>>
  /\ nlp_returned = <<>>
  /\ RetrIdle
  /\ text = <<>>
  /\ doc_type = "none"
  /\ layout = <<>>
  /\ clean_pc = "idle"
  /\ clean_out = <<>>
  /\ clean_out2 = <<>>
  /\ seg_pc = "idle"
  /\ ChunkIdle
  /\ IngIdle
  /\ MonIdle
  /\ ApiIdle
  /\ DashIdle

\* [segment["text"] for segment in segments]
segment_texts(segs) == [i \in 1..Len(segs) |-> segs[i].text]

\* process_document_segments up to its call of process_document: the
\* no-segments return, the index built from the segment texts, and the
\* segments joined into the document_text argument
ProcessDocumentSegments ==
  /\ nlp_pc = "segments_called"
  /\ IF segments = <<>>
     THEN /\ nlp_returned' = [error |-> "No document segments provided."]
          /\ nlp_pc' = "done"
          /\ UNCHANGED <<document_text, retrVars>>
     ELSE /\ \E faiss_ok \in BOOLEAN, save_ok \in BOOLEAN :
               LET r == create_index(vectorstore, index_file, segment_texts(segments),
                                     faiss_ok, save_ok)
               IN /\ vectorstore' = r[1]
                  /\ index_file' = r[2]
          /\ last_create_arg' =
               [last_create_arg EXCEPT !.called = TRUE,
                                       !.documents = segment_texts(segments)]
          /\ retr_calls' = retr_calls + 1
          /\ document_text' = FullDocument(segments)
          /\ nlp_pc' = "called"
          /\ UNCHANGED <<ret_pc, retrieved, nlp_returned>>
  /\ UNCHANGED <<now, document_id, queries_arg, queries, qi, start_time, insights, llm_calls,
                 predictions_dir>>
  /\ UNCHANGED NotNlp

NextSegmentsRun == ProcessDocumentSegments \/ PDStep \/ Tick

SpecSegmentsRun == InitSegmentsRun /\ [][NextSegmentsRun]_vars

\* C27: in a run of process_document_segments on n segments, the index that
\* answers the queries of the run holds the n segment texts as separate
\* entries.
C27_SegmentsIndexed ==
  (nlp_pc = "queries" /\ ~vectorstore.is_none) =>
    vectorstore.docs = segment_texts(segments)

(***************************************************************************)
(* SpecIngest: IngestionPipeline.run over a document list, one document at *)
(* a time through process_document                                         *)
(***************************************************************************)
CallerFile == <<"caller">>
DocInfos ==
  {[url |-> u, doc_type |-> "10-K", file_path |-> f] :
     u \in {"", "http://example.com/report"}, f \in {<<>>, CallerFile}}
  \cup {[url |-> "http://example.com/report", doc_type |-> "", file_path |-> <<>>]}

NoResult == [is_none |-> TRUE, document_id |-> 0, status |-> "", num_segments |-> 0]

InitIngest ==
  /\ document_list \in ListsUpTo(DocInfos, MaxList)
  /\ doc_i = 1
  /\ ing_pc = "run"
  /\ files \in SUBSET {CallerFile}
  /\ ing_file_path = <<>>
  /\ ing_doc_format = "none"
  /\ ing_raw_text = <<>>
  /\ ing_segments = <<>>
  /\ db_documents = <<>>
  /\ db_segments = <<>>
  /\ stage_log = <<>>
  /\ ing_result = <<>>
  /\ results = <<>>
  /\ TextIdle
  /\ ChunkIdle
  /\ RetrIdle
  /\ NlpIdle
  /\ MonIdle
  /\ ApiIdle
  /\ DashIdle

\* head of "for doc_info in document_list": the end of the loop, the
\* continue on a missing url or doc_type, or the entry into process_document
RunNext ==
  /\ ing_pc = "run"
  /\ IF doc_i > Len(document_list)
     THEN /\ ing_pc' = "returned"
          /\ UNCHANGED <<doc_i, stage_log>>
     ELSE IF document_list[doc_i].url = "" \/ document_list[doc_i].doc_type = ""
          THEN /\ doc_i' = doc_i + 1
               /\ UNCHANGED <<ing_pc, stage_log>>
          ELSE /\ ing_pc' = "acquire"
               /\ stage_log' = <<>>
               /\ UNCHANGED doc_i
  /\ UNCHANGED <<document_list, files, ing_file_path, ing_doc_format, ing_raw_text,
                 ing_segments, db_documents, db_segments, ing_result, results>>
  /\ UNCHANGED NotIng

\* 1. Acquire Document
IngAcquire ==
  /\ ing_pc = "acquire"
  /\ \E content_type \in ContentTypes, outcome \in AcquireOutcomes :
       LET r == acquire_document(files, now, content_type, outcome)
           ok == r.file_path # <<>> /\ r.doc_format # "none"
       IN /\ files' = r.files
          /\ ing_file_path' = r.file_path
          /\ ing_doc_format' = r.doc_format
          /\ stage_log' = Append(stage_log, [stage |-> "acquire", ok |-> ok])
          /\ IF ok
             THEN /\ ing_pc' = "parse"
                  /\ UNCHANGED ing_result
             ELSE /\ ing_pc' = "collect"
                  /\ ing_result' = NoResult
  /\ UNCHANGED <<document_list, doc_i, ing_raw_text, ing_segments, db_documents,
                 db_segments, results>>
  /\ UNCHANGED NotIng

\* 2. Parse Document
IngParse ==
  /\ ing_pc = "parse"
  /\ \E primary \in ParserOutcomes, secondary \in ParserOutcomes :
       LET r == parse_document(ing_doc_format, primary, secondary)
           ok == ~r.is_none /\ r.text # <<>>
       IN /\ ing_raw_text' = r.text
          /\ stage_log' = Append(stage_log, [stage |-> "parse", ok |-> ok, tried |-> r.tried,
                                             primary |-> primary, secondary |-> secondary])
          /\ IF ok
             THEN /\ ing_pc' = "segment"
                  /\ UNCHANGED ing_result
             ELSE /\ ing_pc' = "collect"
                  /\ ing_result' = NoResult
  /\ UNCHANGED <<document_list, doc_i, files, ing_file_path, ing_doc_format, ing_segments,
                 db_documents, db_segments, results>>
  /\ UNCHANGED NotIng

\* 3. Clean Text, 4. Segment Document, 5. Extract Metadata. On the texts of
\* the model no company or date pattern matches, so the metadata is the
\* fallback values with the fields process_document adds.
IngSegment ==
  /\ ing_pc = "segment"
  /\ ing_segments' =
       IngestionPipeline_segment_document(IngestionPipeline_clean_text(ing_raw_text),
                                          document_list[doc_i].doc_type)
  /\ stage_log' = Append(stage_log, [stage |-> "segment", ok |-> TRUE])
  /\ ing_pc' = "store"
  /\ UNCHANGED <<document_list, doc_i, files, ing_file_path, ing_doc_format, ing_raw_text,
                 db_documents, db_segments, ing_result, results>>
  /\ UNCHANGED NotIng

\* 6. save_document, 7. save_segments when there are segments, and the
\* return; an exception leaving either call is caught and None returned
IngStore ==
  /\ ing_pc = "store"
  /\ \E doc_outcome \in DbOutcomes, seg_outcome \in DbOutcomes :
       LET metadata == [company |-> "Unknown Company",
                        doc_type |-> document_list[doc_i].doc_type,
                        source_url |-> document_list[doc_i].url,
                        file_path |-> ing_file_path, processed |-> FALSE]
           d == save_document(db_documents, metadata, doc_outcome)
           with_ids == [i \in 1..Len(ing_segments) |->
                          [section_type |-> ing_segments[i].section_type,
                           text |-> ing_segments[i].text,
                           document_id |-> d.document_id]]
       IN /\ db_documents' = d.rows
          /\ IF doc_outcome = "raised"
             THEN /\ stage_log' = Append(stage_log, [stage |-> "save_document", ok |-> FALSE])
                  /\ ing_result' = NoResult
                  /\ UNCHANGED <<db_segments, ing_segments>>
             ELSE IF ing_segments = <<>>
             THEN /\ stage_log' =
                       Append(stage_log, [stage |-> "save_document", ok |-> d.document_id # 0])
                  /\ ing_result' = [is_none |-> FALSE, document_id |-> d.document_id,
                                    status |-> "processed", num_segments |-> 0]
                  /\ UNCHANGED <<db_segments, ing_segments>>
             ELSE /\ stage_log' =
                       stage_log \o <<[stage |-> "save_document", ok |-> d.document_id # 0],
                                      [stage |-> "save_segments", ok |-> seg_outcome = "saved"]>>
                  /\ ing_segments' = with_ids
                  /\ db_segments' = save_segments(db_segments, with_ids, d.document_id, seg_outcome)
                  /\ ing_result' =
                       IF seg_outcome = "raised" THEN NoResult
                       ELSE [is_none |-> FALSE, document_id |-> d.document_id,
                             status |-> "processed", num_segments |-> Len(ing_segments)]
  /\ ing_pc' = "collect"
  /\ UNCHANGED <<document_list, doc_i, files, ing_file_path, ing_doc_format, ing_raw_text,
                 results>>
  /\ UNCHANGED NotIng

\* run after process_document: results.append(result), then os.remove of
\* the file_path entry of doc_info when it names an existing file; an
\* OSError is caught
RunCollect ==
  /\ ing_pc = "collect"
  /\ results' = Append(results, ing_result)
  /\ \E remove_ok \in BOOLEAN :
       LET file_path == document_list[doc_i].file_path
       IN files' = IF file_path # <<>> /\ file_path \in files /\ remove_ok
                   THEN files \ {file_path}
                   ELSE files
  /\ doc_i' = doc_i + 1
  /\ ing_pc' = "run"
  /\ UNCHANGED <<document_list, ing_file_path, ing_doc_format, ing_raw_text, ing_segments,
                 db_documents, db_segments, stage_log, ing_result>>
  /\ UNCHANGED NotIng

NextIngest ==
  RunNext \/ IngAcquire \/ IngParse \/ IngSegment \/ IngStore \/ RunCollect \/ Tick

SpecIngest == InitIngest /\ [][NextIngest]_vars

\* what the value returned by process_document says about the stage that
\* failed: None names no stage, a dictionary reports a processed document
ReportedStage(result) == IF result.is_none THEN "unreported" ELSE "none"

\* C11: when a stage of process_document failed, it is the last stage that
\* ran, the value returned is not a result dictionary, and the value
\* returned names the stage that failed.
C11_FailedStageAborts ==
  ing_pc = "collect" =>
    \A i \in 1..Len(stage_log) :
      ~stage_log[i].ok =>
        /\ i = Len(stage_log)
        /\ ing_result.is_none
        /\ ReportedStage(ing_result) = stage_log[i].stage

\* the entry of the parse stage, while it is the last stage that ran
ParseJustRan == stage_log # <<>> /\ stage_log[Len(stage_log)].stage = "parse"

\* a strategy that threw or returned empty text
ProducedNothing(outcome) == outcome.raised \/ outcome.value = <<>>

\* C19: for a pdf input, the secondary extraction strategy is applied
\* whenever the primary strategy throws or returns empty text, and the parse
\* is reported as failed only after both strategies were tried and neither
\* produced non-empty text.
C19_SecondaryStrategy ==
  (ParseJustRan /\ ing_doc_format = "pdf") =>
    LET parse == stage_log[Len(stage_log)]
    IN /\ ProducedNothing(parse.primary) => parse.tried = <<"pdfminer", "pymupdf">>
       /\ ~parse.ok =>
            /\ parse.tried = <<"pdfminer", "pymupdf">>
            /\ ProducedNothing(parse.primary)
            /\ ProducedNothing(parse.secondary)

\* a file that acquire_document created
IsTempFile(path) == path[1] = "ingestion"

\* C20: after IngestionPipeline.run has returned, no temporary file that
\* acquire_document created for downloaded content remains, whether the
\* document was processed or failed at parsing or a later stage.
C20_TempFilesRemoved ==
  ing_pc = "returned" => \A path \in files : ~IsTempFile(path)

\* C29: run deletes only temporary files that the pipeline created during
\* acquisition: no step of run removes a file of another origin, so a file
\* that existed before run was called still exists when run returns.
C29_CallerFilesKept ==
  [][\A path \in files : ~IsTempFile(path) => path \in files']_vars

\* save_document has succeeded for the current document before stage i
StoredBefore(i) ==
  \E j \in 1..(i - 1) : stage_log[j].stage = "save_document" /\ stage_log[j].ok

\* C21: save_segments is invoked only for a document that save_document has
\* stored, and every saved segment carries the id of a stored document; in
\* particular nothing is saved after save_document failed.
C21_SegmentsOfStoredDocument ==
  /\ \A i \in 1..Len(stage_log) :
       stage_log[i].stage = "save_segments" => StoredBefore(i)
  /\ \A i \in 1..Len(db_segments) :
       db_segments[i].document_id \in 1..Len(db_documents)

(***************************************************************************)
(* The keyword rules that select an extractor for a query, as the          *)
(* retrieval test applies them (rag_query_test.py)                         *)
(***************************************************************************)
ToLower(c) ==
  IF \E i \in 1..26 : UpperCase[i] = c
  THEN LowerCase[CHOOSE i \in 1..26 : UpperCase[i] = c]
  ELSE c

\* str.lower
Lower(s) == [i \in 1..Len(s) |-> ToLower(s[i])]

\* sub in s
Contains(s, sub) ==
  \E i \in 0..(Len(s) - Len(sub)) : SubSeq(s, i + 1, i + Len(sub)) = sub

\* the extractor the if / elif chain selects for a query
QueryKind(query) ==
  LET q == Lower(query)
  IN IF \/ Contains(q, <<"r", "e", "v", "e", "n", "u", "e">>)
        \/ Contains(q, <<"i", "n", "c", "o", "m", "e">>)
        \/ Contains(q, <<"p", "r", "o", "f", "i", "t">>)
     THEN "metric"
     ELSE IF Contains(q, <<"r", "i", "s", "k">>) THEN "risks"
     ELSE "summary"

\* C12: every call made by the query loop of process_document goes to the
\* extractor that the keyword rules select for its query.
C12_KeywordDispatch ==
  \A i \in 1..Min(Len(llm_calls), Len(queries)) :
    llm_calls[i].extractor = QueryKind(llm_calls[i].question)

\* the calls of the run made to one extractor
CallsTo(name) == {i \in 1..Len(llm_calls) : llm_calls[i].extractor = name}

\* C13: a run of process_document on non-empty text makes one call per
\* entry of the query list and exactly one sentiment, one risk and one
\* summary call, each on the whole document text, len(queries) + 3 calls in
\* all, and returns one record holding the per-query results and the three
\* whole-document results.
C13_QueriesPlusThreeCalls ==
  /\ \A name \in {"sentiment", "risks", "summary"} : Cardinality(CallsTo(name)) <= 1
  /\ (nlp_pc = "done" /\ document_text # <<>>) =>
       /\ Len(llm_calls) = Len(queries) + 3
       /\ \A i \in 1..Len(queries) : llm_calls[i].question = queries[i]
       /\ \A name \in {"sentiment", "risks", "summary"} :
            /\ Cardinality(CallsTo(name)) = 1
            /\ \A i \in CallsTo(name) :
                 llm_calls[i].context = document_text /\ i > Len(queries)
            /\ name \in DOMAIN nlp_returned
       /\ DOMAIN nlp_returned.extracted_metrics = {queries[i] : i \in 1..Len(queries)}

\* a finished run over a list that repeats a query
C13_Witness ==
  /\ nlp_pc = "done"
  /\ document_text # <<>>
  /\ Len(queries) = 2
  /\ queries[1] = queries[2]
  /\ Len(llm_calls) = 5

(***************************************************************************)
(* PredictionLogger (logger.py): the three logs and get_prediction         *)
(***************************************************************************)
\* log_correction and log_feedback repeat log_prediction on their directory
log_correction(dir, id, correction, clock, write_ok) ==
  log_prediction(dir, id, correction, clock, write_ok)

log_feedback(dir, id, feedback, clock, write_ok) ==
  log_prediction(dir, id, feedback, clock, write_ok)

\* the characters of file names in code-point order, and str comparison
CodePoints == <<".">> \o DigitChars \o UpperCase \o <<"_">> \o LowerCase
Ord(c) == CHOOSE i \in 1..Len(CodePoints) : CodePoints[i] = c
StrLess(a, b) ==
  \E i \in 1..(Min(Len(a), Len(b)) + 1) :
    /\ \A j \in 1..(i - 1) : a[j] = b[j]
    /\ i <= Len(b)
    /\ i <= Len(a) => Ord(a[i]) < Ord(b[i])

EndsWith(s, suffix) ==
  Len(s) >= Len(suffix) /\ SubSeq(s, Len(s) - Len(suffix) + 1, Len(s)) = suffix

NoPrediction == [is_none |-> TRUE, record |-> <<>>]

\* get_prediction: the files whose name starts with "<document_id>_" and
\* ends with ".json", sorted in reverse; the first is read. None when there
\* is no such file or reading fails.
get_prediction(dir, id, read_ok) ==
  LET prediction_files ==
        {f \in DOMAIN dir : StartsWith(f, id \o <<"_">>)
                            /\ EndsWith(f, <<".", "j", "s", "o", "n">>)}
      first == CHOOSE f \in prediction_files :
                 \A g \in prediction_files \ {f} : StrLess(g, f)
  IN IF prediction_files = {} \/ ~read_ok THEN NoPrediction
     ELSE [is_none |-> FALSE, record |-> dir[first]]

(***************************************************************************)
(* SpecLogger: log_prediction / log_correction / log_feedback calls on one *)
(* PredictionLogger while the clock runs, and get_prediction               *)
(***************************************************************************)
LogIds == { <<"d">>, <<"d", "_", "1">> }
Payloads == {[value |-> 1], [value |-> 2]}

InitLogger ==
  /\ NlpIdle
  /\ corrections_dir = <<>>
  /\ feedback_dir = <<>>
  /\ log_history = <<>>
  /\ got_prediction = <<>>
  /\ mon_pc = "logger"
  /\ acc_gold = <<>>
  /\ acc_predictions = <<>>
  /\ acc_metrics = <<>>
  /\ drift_current = <<>>
  /\ drift_baseline = <<>>
  /\ drift_result = <<>>
  /\ TextIdle
  /\ ChunkIdle
  /\ RetrIdle
  /\ IngIdle
  /\ ApiIdle
  /\ DashIdle

\* the variables the logger never touches
LoggerRest ==
  <<document_text, document_id, queries_arg, queries, nlp_pc, qi, start_time, insights,
    llm_calls, nlp_returned, acc_gold, acc_predictions, acc_metrics, drift_current,
    drift_baseline, drift_result, retrVars, NotMon>>

\* the entry of log_history for a call that returned True
Logged(kind, id, dir) ==
  [kind |-> kind, document_id |-> id, file |-> FileName(id, now),
   record |-> dir[FileName(id, now)]]

LogPrediction ==
  /\ mon_pc \in {"logger", "got"}
  /\ Len(log_history) < MaxLogCalls
  /\ \E id \in LogIds, prediction \in Payloads, write_ok \in BOOLEAN :
       LET dir == log_prediction(predictions_dir, id, prediction, now, write_ok)
       IN /\ predictions_dir' = dir
          /\ log_history' = IF write_ok THEN Append(log_history, Logged("prediction", id, dir))
                            ELSE log_history
  /\ mon_pc' = "logger"
  /\ UNCHANGED <<now, corrections_dir, feedback_dir, got_prediction, LoggerRest>>

LogCorrection ==
  /\ mon_pc \in {"logger", "got"}
  /\ Len(log_history) < MaxLogCalls
  /\ \E id \in LogIds, correction \in Payloads, write_ok \in BOOLEAN :
       LET dir == log_correction(corrections_dir, id, correction, now, write_ok)
       IN /\ corrections_dir' = dir
          /\ log_history' = IF write_ok THEN Append(log_history, Logged("correction", id, dir))
                            ELSE log_history
  /\ mon_pc' = "logger"
  /\ UNCHANGED <<now, predictions_dir, feedback_dir, got_prediction, LoggerRest>>

LogFeedback ==
  /\ mon_pc \in {"logger", "got"}
  /\ Len(log_history) < MaxLogCalls
  /\ \E id \in LogIds, feedback \in Payloads, write_ok \in BOOLEAN :
       LET dir == log_feedback(feedback_dir, id, feedback, now, write_ok)
       IN /\ feedback_dir' = dir
          /\ log_history' = IF write_ok THEN Append(log_history, Logged("feedback", id, dir))
                            ELSE log_history
  /\ mon_pc' = "logger"
  /\ UNCHANGED <<now, predictions_dir, corrections_dir, got_prediction, LoggerRest>>

GetPrediction ==
  /\ mon_pc = "logger"
  /\ \E id \in LogIds, read_ok \in BOOLEAN :
       got_prediction' = [document_id |-> id, read_ok |-> read_ok,
                          result |-> get_prediction(predictions_dir, id, read_ok)]
  /\ mon_pc' = "got"
  /\ UNCHANGED <<now, predictions_dir, corrections_dir, feedback_dir, log_history, LoggerRest>>

NextLogger == LogPrediction \/ LogCorrection \/ LogFeedback \/ GetPrediction \/ Tick

SpecLogger == InitLogger /\ [][NextLogger]_vars

\* the directory of a kind of record
LogDir(kind) ==
  CASE kind = "prediction" -> predictions_dir
    [] kind = "correction" -> corrections_dir
    [] kind = "feedback" -> feedback_dir

\* C14: each log holds as many records as there were successful calls of
\* its kind, and the record every successful call wrote is still stored
\* as written.
C14_AppendOnly ==
  /\ \A kind \in {"prediction", "correction", "feedback"} :
       Cardinality(DOMAIN LogDir(kind)) =
         Cardinality({i \in 1..Len(log_history) : log_history[i].kind = kind})
  /\ \A i \in 1..Len(log_history) :
       LogDir(log_history[i].kind)[log_history[i].file] = log_history[i].record

\* C15: get_prediction(d) returns the record of the latest successful
\* log_prediction call made for d, and None when there was none.
C15_LatestOwnPrediction ==
  (mon_pc = "got" /\ got_prediction.read_ok) =>
    LET mine == {i \in 1..Len(log_history) :
                   /\ log_history[i].kind = "prediction"
                   /\ log_history[i].document_id = got_prediction.document_id}
    IN IF mine = {} THEN got_prediction.result.is_none
       ELSE /\ ~got_prediction.result.is_none
            /\ got_prediction.result.record =
                 log_history[CHOOSE i \in mine : \A j \in mine : j <= i].record

(***************************************************************************)
(* metrics.py: calculate_precision_recall and calculate_accuracy_metrics.  *)
(* A list value is "a", "b", "0", "1" or "None", the last three standing   *)
(* for the integers 0 and 1 and for None; a float is the fraction it       *)
(* approximates, in lowest terms.                                          *)
(***************************************************************************)
RECURSIVE GCD(_, _)
GCD(a, b) == IF b = 0 THEN a ELSE GCD(b, a % b)

Ratio(n, d) == [num |-> n \div GCD(n, d), den |-> d \div GCD(n, d)]
Zero == [num |-> 0, den |-> 1]

\* sum(1 for g, p in zip(gold, preds) if ...): zip stops at the shorter list
CountPairs(gold, preds, Test(_, _)) ==
  Cardinality({i \in 1..Min(Len(gold), Len(preds)) : Test(gold[i], preds[i])})

\* the body of the try block of calculate_precision_recall on the trimmed
\* lists: sklearn's binary scores (zero_division gives 0.0) when every
\* value is 0 or 1, else the exact-match counts, whose divisions can raise
PrecisionRecallBody(g, p) ==
  LET all_binary == \A i \in 1..Len(g) : g[i] \in {"0", "1"} /\ p[i] \in {"0", "1"}
      tp1 == CountPairs(g, p, LAMBDA x, y : x = "1" /\ y = "1")
      fp1 == CountPairs(g, p, LAMBDA x, y : x = "0" /\ y = "1")
      fn1 == CountPairs(g, p, LAMBDA x, y : x = "1" /\ y = "0")
      true_positives == CountPairs(g, p, LAMBDA x, y : x = y /\ x # "None")
      predicted == Cardinality({i \in 1..Len(p) : p[i] # "None"})
      actual == Cardinality({i \in 1..Len(g) : g[i] # "None"})
      all_none == \A i \in 1..Len(g) : g[i] = "None"
  IN IF all_binary
     THEN Returned([precision |-> IF tp1 + fp1 = 0 THEN Zero ELSE Ratio(tp1, tp1 + fp1),
                    recall |-> IF tp1 + fn1 = 0 THEN Zero ELSE Ratio(tp1, tp1 + fn1),
                    f1 |-> IF 2 * tp1 + fp1 + fn1 = 0 THEN Zero
                           ELSE Ratio(2 * tp1, 2 * tp1 + fp1 + fn1)])
     ELSE IF (~all_none /\ predicted = 0) \/ actual = 0
          THEN Raised
          ELSE Returned([precision |-> IF all_none THEN Zero
                                       ELSE Ratio(true_positives, predicted),
                         recall |-> Ratio(true_positives, actual),
                         f1 |-> IF true_positives = 0 THEN Zero
                                ELSE Ratio(2 * true_positives, predicted + actual)])

\* calculate_precision_recall without its except clause
calculate_precision_recall_uncaught(gold_data, preds) ==
  IF gold_data = <<>> \/ preds = <<>>
  THEN Returned([precision |-> Zero, recall |-> Zero, f1 |-> Zero])
  ELSE LET min_len == Min(Len(gold_data), Len(preds))
       IN PrecisionRecallBody(SubSeq(gold_data, 1, min_len), SubSeq(preds, 1, min_len))

calculate_precision_recall(gold_data, preds) ==
  IF gold_data = <<>> \/ preds = <<>>
  THEN Returned([precision |-> Zero, recall |-> Zero, f1 |-> Zero])
  ELSE LET min_len == Min(Len(gold_data), Len(preds))
           r == PrecisionRecallBody(SubSeq(gold_data, 1, min_len),
                                    SubSeq(preds, 1, min_len))
       IN IF r.raised
          THEN Returned([precision |-> Zero, recall |-> Zero, f1 |-> Zero,
                         error |-> "division by zero"])
          ELSE r

calculate_accuracy_metrics(gold_standard, preds) ==
  IF gold_standard = <<>> \/ preds = <<>>
  THEN Returned([accuracy |-> Zero, precision |-> Zero, recall |-> Zero, f1 |-> Zero])
  ELSE LET correct == CountPairs(gold_standard, preds, LAMBDA x, y : x = y)
           accuracy == Ratio(correct, Len(gold_standard))
           pr_metrics == calculate_precision_recall(gold_standard, preds)
       IN IF pr_metrics.raised THEN Raised
          ELSE Returned([accuracy |-> accuracy,
                         precision |-> pr_metrics.value.precision,
                         recall |-> pr_metrics.value.recall,
                         f1 |-> pr_metrics.value.f1])

(***************************************************************************)
(* SpecMetrics: one call of calculate_accuracy_metrics                     *)
(***************************************************************************)
Values == {"a", "b", "0", "1", "None"}

InitMetrics ==
  /\ acc_gold \in ListsUpTo(Values, MaxSamples)
  /\ acc_predictions \in ListsUpTo(Values, MaxSamples)
  /\ acc_metrics = <<>>
  /\ mon_pc = "metrics"
  /\ corrections_dir = <<>>
  /\ feedback_dir = <<>>
  /\ log_history = <<>>
  /\ got_prediction = <<>>
  /\ drift_current = <<>>
  /\ drift_baseline = <<>>
  /\ drift_result = <<>>
  /\ TextIdle
  /\ ChunkIdle
  /\ RetrIdle
  /\ NlpIdle
  /\ IngIdle
  /\ ApiIdle
  /\ DashIdle

CalculateAccuracyMetrics ==
  /\ mon_pc = "metrics"
  /\ LET r == calculate_accuracy_metrics(acc_gold, acc_predictions)
     IN /\ acc_metrics' = r.value
        /\ mon_pc' = IF r.raised THEN "raised" ELSE "returned"
  /\ UNCHANGED <<corrections_dir, feedback_dir, log_history, got_prediction, acc_gold,
                 acc_predictions, drift_current, drift_baseline, drift_result>>
  /\ UNCHANGED <<nlpVars, NotMon>>

NextMetrics == CalculateAccuracyMetrics

SpecMetrics == InitMetrics /\ [][NextMetrics]_vars

\* the positions both lists have
Paired == 1..Min(Len(acc_gold), Len(acc_predictions))

\* every paired value is 0 or 1
BinaryLabels ==
  \A i \in Paired : acc_gold[i] \in {"0", "1"} /\ acc_predictions[i] \in {"0", "1"}

\* C16: calculate_accuracy_metrics never raises; it returns the keys
\* accuracy, precision, recall and f1 with values in [0, 1]; precision is
\* 0.0 when nothing is predicted, recall is 0.0 when the gold list holds
\* nothing to find, f1 is 0.0 when both are, and all four are 0.0 when a
\* list is empty.
C16_MetricsTotal ==
  /\ mon_pc # "raised"
  /\ mon_pc = "returned" =>
       /\ DOMAIN acc_metrics = {"accuracy", "precision", "recall", "f1"}
       /\ \A k \in DOMAIN acc_metrics :
            /\ acc_metrics[k].den > 0
            /\ 0 <= acc_metrics[k].num
            /\ acc_metrics[k].num <= acc_metrics[k].den
       /\ (acc_gold = <<>> \/ acc_predictions = <<>>) =>
            \A k \in DOMAIN acc_metrics : acc_metrics[k] = Zero
       /\ (\A i \in Paired : acc_predictions[i] = IF BinaryLabels THEN "0" ELSE "None") =>
            acc_metrics.precision = Zero
       /\ (\A i \in Paired : acc_gold[i] = IF BinaryLabels THEN "0" ELSE "None") =>
            acc_metrics.recall = Zero
       /\ (acc_metrics.precision = Zero /\ acc_metrics.recall = Zero) =>
            acc_metrics.f1 = Zero

\* gold values to find and only None predicted: the precision division
\* has a zero denominator
C16_Witness ==
  /\ mon_pc = "returned"
  /\ Len(acc_gold) = 2
  /\ Len(acc_predictions) = 2
  /\ acc_gold[1] = "a"
  /\ \A i \in Paired : acc_predictions[i] = "None"
  /\ acc_metrics.precision = Zero

\* C17: for non-empty lists, accuracy times the length of the shorter list
\* is the number of positions of the shorter list at which the two agree.
C17_AccuracyOverShorter ==
  (mon_pc = "returned" /\ acc_gold # <<>> /\ acc_predictions # <<>>) =>
    acc_metrics.accuracy.num * Cardinality(Paired) =
      Cardinality({i \in Paired : acc_gold[i] = acc_predictions[i]})
        * acc_metrics.accuracy.den

(***************************************************************************)
(* detect_drift (monitoring_feedback/metrics.py)                           *)
(*                                                                         *)
(* A distribution is a dict from feature name to a list of values.  A      *)
(* value is a digit (the number it names), "nan" (float("nan") or None,    *)
(* which np.array(..., dtype=float) turns into NaN) or "x" (a string that  *)
(* float() rejects).                                                       *)
(***************************************************************************)
Num(v) == (CHOOSE i \in 1..Len(DigitChars) : DigitChars[i] = v) - 1

IsNumber(v) == \E i \in 1..Len(DigitChars) : DigitChars[i] = v

\* np.array(values, dtype=float) raises ValueError on a value float() rejects
ConversionRaises(values) ==
  \E i \in 1..Len(values) : ~IsNumber(values[i]) /\ values[i] # "nan"

\* arr[~np.isnan(arr)]
DropNaN(values) == SelectSeq(values, LAMBDA v : v # "nan")

RECURSIVE Binomial(_, _)
Binomial(n, k) == IF k = 0 THEN 1 ELSE (Binomial(n - 1, k - 1) * n) \div k

\* the Kolmogorov-Smirnov statistic is 1: one sample lies entirely below the other
Separated(a, b) ==
  \/ \A i \in 1..Len(a), j \in 1..Len(b) : Num(a[i]) < Num(b[j])
  \/ \A i \in 1..Len(a), j \in 1..Len(b) : Num(b[j]) < Num(a[i])

\* p_value < 0.05 for stats.ks_2samp(a, b), exact for samples of at most 4
\* values: a statistic of 1 has p = 2 / C(n + m, n), and every smaller
\* statistic of such samples has p >= 16/70
PValueBelowAlpha(a, b) ==
  /\ Separated(a, b)
  /\ 2 * 100 < 5 * Binomial(Len(a) + Len(b), Len(a))

\* the loop body of one feature that both dicts hold and that converts
Tested(current_values, baseline_values) ==
  /\ Len(DropNaN(current_values)) >= 2
  /\ Len(DropNaN(baseline_values)) >= 2

detect_drift_per_feature(current_data_distribution, baseline_distribution) ==
  LET shared == DOMAIN current_data_distribution \cap DOMAIN baseline_distribution
      kept == {f \in shared : Tested(current_data_distribution[f], baseline_distribution[f])}
      features == [f \in kept |->
                     [drift_detected |->
                        PValueBelowAlpha(DropNaN(current_data_distribution[f]),
                                         DropNaN(baseline_distribution[f]))]]
  IN  [drift_detected |-> \E f \in kept : features[f].drift_detected,
       features |-> features]

detect_drift(current_data_distribution, baseline_distribution) ==
  IF DOMAIN current_data_distribution = {} \/ DOMAIN baseline_distribution = {}
  THEN [drift_detected |-> FALSE, error |-> "Empty distribution provided"]
  ELSE IF \E f \in DOMAIN current_data_distribution \cap DOMAIN baseline_distribution :
            \/ ConversionRaises(current_data_distribution[f])
            \/ ConversionRaises(baseline_distribution[f])
       THEN \* except Exception: what the loop had collected is dropped
            [drift_detected |-> FALSE, error |-> "could not convert string to float"]
       ELSE detect_drift_per_feature(current_data_distribution, baseline_distribution)

(***************************************************************************)
(* SpecDrift: one call of detect_drift                                     *)
(***************************************************************************)
Features == {"a", "b"}

SampleLists ==
  { <<"1", "2", "3", "4">>,
    <<"5", "6", "7", "8">>,
    <<"1", "nan", "2">>,
    <<"nan", "1">>,
    <<"1", "2", "x">>,
    <<>> }

Distributions == UNION { [fs -> SampleLists] : fs \in SUBSET Features }

InitDrift ==
  /\ drift_current \in Distributions
  /\ drift_baseline \in Distributions
  /\ drift_result = <<>>
  /\ mon_pc = "drift"
  /\ corrections_dir = <<>>
  /\ feedback_dir = <<>>
  /\ log_history = <<>>
  /\ got_prediction = <<>>
  /\ acc_gold = <<>>
  /\ acc_predictions = <<>>
  /\ acc_metrics = <<>>
  /\ TextIdle
  /\ ChunkIdle
  /\ RetrIdle
  /\ NlpIdle
  /\ IngIdle
  /\ ApiIdle
  /\ DashIdle

DetectDrift ==
  /\ mon_pc = "drift"
  /\ drift_result' = detect_drift(drift_current, drift_baseline)
  /\ mon_pc' = "returned"
  /\ UNCHANGED <<corrections_dir, feedback_dir, log_history, got_prediction, acc_gold,
                 acc_predictions, acc_metrics, drift_current, drift_baseline>>
  /\ UNCHANGED <<nlpVars, NotMon>>

NextDrift == DetectDrift

SpecDrift == InitDrift /\ [][NextDrift]_vars

\* the values of a list that are numbers
ValidSamples(values) == SelectSeq(values, IsNumber)

\* the features both inputs hold with at least 2 valid samples on each side
Reportable ==
  {f \in DOMAIN drift_current \cap DOMAIN drift_baseline :
     /\ Len(ValidSamples(drift_current[f])) >= 2
     /\ Len(ValidSamples(drift_baseline[f])) >= 2}

Drifted(f) == PValueBelowAlpha(ValidSamples(drift_current[f]), ValidSamples(drift_baseline[f]))

\* C18: for non-empty inputs, detect_drift reports a result for exactly the
\* features that both inputs hold with at least 2 valid samples per side
\* once non-numeric and NaN values are dropped, the overall drift_detected is
\* true exactly when one of them has p-value < 0.05, and a feature that is
\* skipped or holds non-numeric values changes nothing for the others.
C18_PerFeatureDrift ==
  (mon_pc = "returned" /\ DOMAIN drift_current # {} /\ DOMAIN drift_baseline # {}) =>
    /\ "features" \in DOMAIN drift_result
    /\ DOMAIN drift_result.features = Reportable
    /\ \A f \in Reportable : drift_result.features[f].drift_detected = Drifted(f)
    /\ drift_result.drift_detected = (\E f \in Reportable : Drifted(f))

(***************************************************************************)
(* The API's background processing (api/main.py) and the insights table    *)
(* (storage.py)                                                            *)
(***************************************************************************)
\* str(n) of a non-negative integer
RECURSIVE IntToStr(_)
IntToStr(n) ==
  IF n < 10 THEN <<DigitChars[n + 1]>>
  ELSE IntToStr(n \div 10) \o <<DigitChars[(n % 10) + 1]>>

Str_document_id_eq == <<"d", "o", "c", "u", "m", "e", "n", "t", "_", "i", "d", "=">>

TypeChars ==
  [metric |-> <<"m", "e", "t", "r", "i", "c">>,
   sentiment |-> <<"s", "e", "n", "t", "i", "m", "e", "n", "t">>,
   risks |-> <<"r", "i", "s", "k", "s">>,
   summary |-> <<"s", "u", "m", "m", "a", "r", "y">>]

\* f"document_id={document_id}, type={type}"
SourceReference(id, type) ==
  Str_document_id_eq \o IntToStr(id) \o <<",", " ", "t", "y", "p", "e", "=">> \o TypeChars[type]

\* what NLPLlmPipeline.process_document returns to the API: the error record
\* for an empty text, else the insights of the default queries
ApiInsights(text_arg, id, clock) ==
  IF text_arg = <<>> THEN [error |-> "Empty document text provided."]
  ELSE [document_id |-> id, company |-> "Unknown", timestamp |-> clock,
        extracted_metrics |-> [i \in 1..Len(DefaultQueries) |-> "metric text"],
        sentiment |-> "sentiment text", risks |-> "risks text", summary |-> "summary text"]

\* the insight_data dictionaries save_insights_to_database builds, in order:
\* one per extracted metric, then sentiment, risks and summary when present
InsightData(id, ins) ==
  LET metrics == IF "extracted_metrics" \in DOMAIN ins
                 THEN [i \in 1..Len(ins.extracted_metrics) |->
                         [metric |-> DefaultQueries[i], value |-> ins.extracted_metrics[i],
                          source_reference |-> SourceReference(id, "metric"),
                          saved_for |-> id]]
                 ELSE <<>>
      single(name) == IF name \in DOMAIN ins
                      THEN <<[metric |-> TypeChars[name], value |-> ins[name],
                              source_reference |-> SourceReference(id, name),
                              saved_for |-> id]>>
                      ELSE <<>>
  IN metrics \o single("sentiment") \o single("risks") \o single("summary")

\* save_insights_to_database: a save_insight call that fails is caught and
\* saves nothing
save_insights_to_database(rows, id, ins, db_ok) ==
  IF db_ok THEN rows \o InsightData(id, ins) ELSE rows

\* SELECT ... FROM segments WHERE document_id = %s ORDER BY id
get_document_segments(rows, id) == SelectSeq(rows, LAMBDA r : r.document_id = id)

\* SELECT ... FROM insights WHERE source_reference LIKE '%document_id=<id>%'
get_insights_by_document(rows, id) ==
  SelectSeq(rows, LAMBDA r : Contains(r.source_reference, Str_document_id_eq \o IntToStr(id)))

(***************************************************************************)
(* SpecApi: uploads and analysis requests served one after the other, on a *)
(* database that is new or already holds earlier documents                 *)
(***************************************************************************)
MaxUploads == 1     \* at most this many uploads
MaxAnalyses == 2    \* at most this many analysis requests
EarlierDocuments == 9

EarlierRow ==
  [company |-> "Unknown Company", doc_type |-> "10-K", source_url |-> "",
   file_path |-> <<>>, processed |-> FALSE]

UploadTexts == { <<>>, <<"a">> }

InitApi ==
  /\ api_pc = "idle"
  /\ api_run = <<>>
  /\ db_insights = <<>>
  /\ upload_log = <<>>
  /\ analysis_log = <<>>
  /\ got_insights = <<>>
  /\ \/ /\ db_documents = <<>>
        /\ db_segments = <<>>
     \/ /\ db_documents = [i \in 1..EarlierDocuments |-> EarlierRow]
        /\ db_segments = <<[document_id |-> 1, section_type |-> "Full Document",
                            text |-> <<"b">>]>>
  /\ document_list = <<>>
  /\ doc_i = 0
  /\ ing_pc = "off"
  /\ files = {}
  /\ ing_file_path = <<>>
  /\ ing_doc_format = "none"
  /\ ing_raw_text = <<>>
  /\ ing_segments = <<>>
  /\ stage_log = <<>>
  /\ ing_result = <<>>
  /\ results = <<>>
  /\ NlpIdle
  /\ TextIdle
  /\ ChunkIdle
  /\ RetrIdle
  /\ MonIdle
  /\ DashIdle

IngRest ==
  <<document_list, doc_i, ing_pc, ing_file_path, ing_doc_format, ing_raw_text, ing_segments,
    stage_log, ing_result, results>>

NlpRest ==
  <<document_text, document_id, queries_arg, queries, nlp_pc, qi, start_time, insights,
    llm_calls, nlp_returned>>

ApiFrame == <<IngRest, NlpRest, textVars, chunkVars, retrVars, monVars, dashVars>>

\* upload_document: the upload is copied to a temporary file and
\* process_document_background is added to the background tasks
UploadDocument ==
  /\ api_pc = "idle"
  /\ Len(upload_log) < MaxUploads
  /\ \E content \in UploadTexts :
       LET temp_file_path == <<"upload", Len(upload_log) + 1>>
       IN /\ files' = files \cup {temp_file_path}
          /\ api_run' = [file_path |-> temp_file_path, content |-> content]
  /\ api_pc' = "upload_task"
  /\ UNCHANGED <<db_insights, upload_log, analysis_log, got_insights, db_documents,
                 db_segments, now, predictions_dir>>
  /\ UNCHANGED ApiFrame

\* process_document_background: process_local_document, then the call of
\* analyze_document_background, then the removal of the temporary file.
\* analyze_document_background is a coroutine function and the call is not
\* awaited: the call builds a coroutine object and its body does not run.
ProcessDocumentBackground ==
  /\ api_pc = "upload_task"
  /\ \E load_ok \in BOOLEAN, doc_outcome \in DbOutcomes, seg_outcome \in DbOutcomes,
        remove_ok \in BOOLEAN :
       LET document_data ==
             [company |-> "Unknown", doc_type |-> "10-K", source_url |-> "",
              file_path |-> api_run.file_path, processed |-> FALSE]
           d == save_document(db_documents, document_data, doc_outcome)
           segs == <<[section_type |-> "Full Document", text |-> api_run.content]>>
           stored == load_ok /\ d.document_id # 0
       IN /\ db_documents' = IF load_ok THEN d.rows ELSE db_documents
          /\ db_segments' =
               IF stored
               THEN save_segments(db_segments, segs, d.document_id, seg_outcome)
               ELSE db_segments
          /\ upload_log' =
               Append(upload_log, [document_id |-> IF stored THEN d.document_id ELSE 0])
          /\ files' = IF remove_ok THEN files \ {api_run.file_path} ELSE files
  /\ api_run' = <<>>
  /\ api_pc' = "idle"
  /\ UNCHANGED <<db_insights, analysis_log, got_insights, now, predictions_dir>>
  /\ UNCHANGED ApiFrame

\* the documents an analysis is requested for
AnalyzeIds == {1, 2, EarlierDocuments + 1}

\* analyze_document: 404 unless the document and segments of it exist, else
\* analyze_document_background is added to the background tasks
AnalyzeDocument ==
  /\ api_pc = "idle"
  /\ Len(analysis_log) < MaxAnalyses
  /\ \E id \in AnalyzeIds :
       /\ id \in 1..Len(db_documents)
       /\ get_document_segments(db_segments, id) # <<>>
       /\ api_run' = [document_id |-> id,
                      full_document_text |->
                        FullDocument(get_document_segments(db_segments, id)),
                      before |-> Cardinality(DOMAIN predictions_dir)]
  /\ api_pc' = "analysis_run"
  /\ UNCHANGED <<db_insights, upload_log, analysis_log, got_insights, db_documents,
                 db_segments, files, now, predictions_dir>>
  /\ UNCHANGED ApiFrame

\* analyze_document_background up to the return of
\* nlp_pipeline.process_document, which logs the prediction of a run on
\* non-empty text
AnalyzeRun ==
  /\ api_pc = "analysis_run"
  /\ \E write_ok \in BOOLEAN :
       LET ins == ApiInsights(api_run.full_document_text, api_run.document_id, now)
       IN /\ predictions_dir' =
               IF api_run.full_document_text # <<>>
               THEN log_prediction(predictions_dir, IntToStr(api_run.document_id), ins,
                                   now, write_ok)
               ELSE predictions_dir
          /\ api_run' = [document_id |-> api_run.document_id,
                         full_document_text |-> api_run.full_document_text,
                         before |-> api_run.before, insights |-> ins,
                         writes_ok |-> write_ok]
  /\ api_pc' = "analysis_save"
  /\ UNCHANGED <<db_insights, upload_log, analysis_log, got_insights, db_documents,
                 db_segments, files, now>>
  /\ UNCHANGED ApiFrame

\* the rest of analyze_document_background: save_insights_to_database and
\* logger.log_prediction(str(document_id), insights)
AnalyzeSave ==
  /\ api_pc = "analysis_save"
  /\ \E db_ok \in BOOLEAN, write_ok \in BOOLEAN :
       LET logged == log_prediction(predictions_dir, IntToStr(api_run.document_id),
                                    api_run.insights, now, write_ok)
       IN /\ db_insights' = save_insights_to_database(db_insights, api_run.document_id,
                                                      api_run.insights, db_ok)
          /\ predictions_dir' = logged
          /\ analysis_log' =
               Append(analysis_log,
                      [document_id |-> api_run.document_id,
                       before |-> api_run.before,
                       after |-> Cardinality(DOMAIN logged),
                       writes_ok |-> api_run.writes_ok /\ write_ok])
  /\ api_run' = <<>>
  /\ api_pc' = "idle"
  /\ UNCHANGED <<upload_log, got_insights, db_documents, db_segments, files, now>>
  /\ UNCHANGED ApiFrame

\* a caller of storage.get_insights_by_document
GetInsightsByDocument ==
  /\ api_pc = "idle"
  /\ \E id \in AnalyzeIds :
       got_insights' = [document_id |-> id, table |-> db_insights,
                        rows |-> get_insights_by_document(db_insights, id)]
  /\ UNCHANGED <<api_pc, api_run, db_insights, upload_log, analysis_log, db_documents,
                 db_segments, files, now, predictions_dir>>
  /\ UNCHANGED ApiFrame

NextApi ==
  \/ UploadDocument
  \/ ProcessDocumentBackground
  \/ AnalyzeDocument
  \/ AnalyzeRun
  \/ AnalyzeSave
  \/ GetInsightsByDocument
  \/ Tick

SpecApi == InitApi /\ [][NextApi]_vars

\* the insight stage has completed for document id
Analyzed(id) == \E i \in 1..Len(analysis_log) : analysis_log[i].document_id = id

\* C23: the processed flag of a stored document is false until the insight
\* stage for the document completes and true once it has completed.
C23_ProcessedAfterInsights ==
  \A id \in 1..Len(db_documents) : db_documents[id].processed = Analyzed(id)

\* C24: each completed analysis run whose log writes succeed adds exactly
\* one prediction record to the prediction log, whatever time the run took.
C24_OneRecordPerRun ==
  \A i \in 1..Len(analysis_log) :
    analysis_log[i].writes_ok => analysis_log[i].after = analysis_log[i].before + 1

\* C25: get_insights_by_document(d) returns exactly the insights that were
\* saved for document d: all of them and none saved for another document.
C25_InsightsOfDocument ==
  got_insights # <<>> =>
    got_insights.rows =
      SelectSeq(got_insights.table, LAMBDA r : r.saved_for = got_insights.document_id)

\* C28: when the background processing of an upload has finished and the
\* document was stored, the analysis of the stored document has been
\* executed: its insights are saved and a prediction is logged.
C28_UploadIsAnalyzed ==
  \A i \in 1..Len(upload_log) :
    upload_log[i].document_id # 0 => Analyzed(upload_log[i].document_id)

(***************************************************************************)
(* HumanReviewDashboard (monitoring_feedback/dashboard.py)                 *)
(*                                                                         *)
(* corrections_cache maps an insight type to an entry: a dict of metric    *)
(* name |-> value, or a value.  <<>> is the empty dict.                    *)
(***************************************************************************)
DictEntry(d) == [is_dict |-> TRUE, dict |-> d, value |-> ""]
ValueEntry(v) == [is_dict |-> FALSE, dict |-> <<>>, value |-> v]

\* "if not self.current_document_id or not self.current_prediction"
NothingUnderReview(id, prediction) == id = <<>> \/ prediction = <<>>

\* the cache after the statements of correct_insight that follow the test
\* for a document under review, and the value returned
correct_insight(cache, insight_type, key, corrected_value) ==
  LET entered == IF insight_type \notin DOMAIN cache
                 THEN Put(cache, insight_type, DictEntry(<<>>))
                 ELSE cache
  IN IF insight_type = "metrics"
     THEN IF key = ""
          THEN [cache |-> entered, returned |-> FALSE]
          ELSE [cache |-> Put(entered, insight_type,
                              DictEntry(Put(entered[insight_type].dict, key,
                                            corrected_value))),
                returned |-> TRUE]
     ELSE [cache |-> Put(entered, insight_type, ValueEntry(corrected_value)),
           returned |-> TRUE]

(***************************************************************************)
(* SpecDashboard: one HumanReviewDashboard and the calls made on it        *)
(***************************************************************************)
DashIds == { <<"d", "1">> }
Predictions == { <<>>, [summary |-> "summary text"] }
InsightTypes == {"metrics", "sentiment"}
MetricKeys == {"", "EPS"}
CorrectedValues == {"v1", "v2"}

InitDashboard ==
  /\ current_document_id = <<>>
  /\ current_prediction = <<>>
  /\ corrections_cache = <<>>
  /\ accepted = <<>>
  /\ dash_returned = <<>>
  /\ dash_pc = "new"
  /\ NlpIdle
  /\ TextIdle
  /\ ChunkIdle
  /\ RetrIdle
  /\ IngIdle
  /\ MonIdle
  /\ ApiIdle

DashFrame ==
  <<feedback_dir, log_history, got_prediction, acc_gold, acc_predictions, acc_metrics,
    drift_current, drift_baseline, drift_result, mon_pc, nlpVars, textVars, chunkVars,
    retrVars, ingVars, apiVars>>

\* display_document: False when the document is not found, else the document
\* and its prediction are put under review and the cache is reset
DisplayDocument ==
  /\ \E id \in DashIds, found \in BOOLEAN, prediction \in Predictions :
       IF ~found
       THEN /\ dash_returned' = [value |-> FALSE]
            /\ UNCHANGED <<current_document_id, current_prediction, corrections_cache,
                           accepted>>
       ELSE /\ current_document_id' = id
            /\ current_prediction' = prediction
            /\ corrections_cache' = <<>>
            /\ accepted' = <<>>
            /\ dash_returned' = [value |-> TRUE]
  /\ dash_pc' = "display_document"
  /\ UNCHANGED corrections_dir
  /\ UNCHANGED DashFrame

CorrectInsight ==
  /\ \E insight_type \in InsightTypes, key \in MetricKeys, corrected_value \in CorrectedValues :
       IF NothingUnderReview(current_document_id, current_prediction)
       THEN /\ dash_returned' = [value |-> FALSE]
            /\ UNCHANGED <<corrections_cache, accepted>>
       ELSE LET r == correct_insight(corrections_cache, insight_type, key, corrected_value)
            IN /\ corrections_cache' = r.cache
               /\ dash_returned' = [value |-> r.returned]
               /\ accepted' =
                    IF r.returned
                    THEN correct_insight(accepted, insight_type, key, corrected_value).cache
                    ELSE accepted
  /\ dash_pc' = "correct_insight"
  /\ UNCHANGED <<current_document_id, current_prediction, corrections_dir>>
  /\ UNCHANGED DashFrame

\* submit_corrections: {} when nothing is under review or the cache is
\* empty, else the correction is logged, the cache cleared and the
\* correction returned
SubmitCorrections ==
  /\ IF \/ NothingUnderReview(current_document_id, current_prediction)
        \/ corrections_cache = <<>>
     THEN /\ dash_returned' = [value |-> <<>>, logged |-> FALSE, accepted |-> accepted]
          /\ UNCHANGED <<corrections_cache, accepted, corrections_dir>>
     ELSE \E write_ok \in BOOLEAN :
            LET correction == [document_id |-> current_document_id, timestamp |-> now,
                               corrections |-> corrections_cache,
                               original_prediction |-> current_prediction]
            IN /\ corrections_dir' = log_correction(corrections_dir, current_document_id,
                                                    correction, now, write_ok)
               /\ dash_returned' = [value |-> correction, logged |-> TRUE,
                                    accepted |-> accepted]
               /\ corrections_cache' = <<>>
               /\ accepted' = <<>>
  /\ dash_pc' = "submit_corrections"
  /\ UNCHANGED <<current_document_id, current_prediction>>
  /\ UNCHANGED DashFrame

NextDashboard == DisplayDocument \/ CorrectInsight \/ SubmitCorrections \/ Tick

SpecDashboard == InitDashboard /\ [][NextDashboard]_vars

\* C30: a rejected correct_insight call leaves corrections_cache unchanged,
\* so the cache always holds the accepted corrections alone;
\* submit_corrections submits exactly the accepted corrections, and returns
\* {} without writing a correction record when none was accepted.
C30_RejectedLeavesCache ==
  /\ corrections_cache = accepted
  /\ dash_pc = "submit_corrections" =>
       IF dash_returned.accepted = <<>>
       THEN dash_returned.value = <<>> /\ ~dash_returned.logged
       ELSE /\ dash_returned.logged
            /\ dash_returned.value.corrections = dash_returned.accepted

====
